---- MODULE Spec2Model ----
(***************************************************************************)
(* Client-side streaming reconciliation and voice pipeline of agentcosm.   *)
(*                                                                         *)
(* Part 1 models the streaming transport (useSSE.sendMessage) and the      *)
(* event reconciler of the chat page (AgentDevUI: the SSE effect,          *)
(* handleSendMessage, handleSessionChange, handleNewSession), under the    *)
(* specifications Spec (one session), SpecSwitch (session switches) and    *)
(* SpecPages (the reconciler of the second chat page).  Part 2 models the  *)
(* voice pipeline of MessageInput under SpecVoice and SpecConversation.    *)
(*                                                                         *)
(* Time is counted in milliseconds.  A fragment's producer timestamp is in *)
(* seconds; an entry's timestamp field is kept in milliseconds so that     *)
(* Date.now()/1000 stays an integer.  Text is a sequence of character      *)
(* codes.  An absent or empty text is <<>>, an absent timestamp is 0 and   *)
(* an absent invocation_id is "" (all three are falsy in the source).      *)
(* The fields id, function_calls and function_responses of an entry are    *)
(* not read by any decision of the reconciler and are left out.            *)
(***************************************************************************)
EXTENDS Integers, Sequences, FiniteSets, TLC

(***************************************************************************)
(* Bounds of the model                                                     *)
(***************************************************************************)
MaxFrags == 3
MaxPerChunk == 2
MaxSends == 1
MaxCalls == 2
MaxTicks == 1
MaxSwitches == 1
MaxUtterances == 2
MaxTimers == 2
MaxFinals == 2

(***************************************************************************)
(* Program constants                                                       *)
(***************************************************************************)
KeyPrefixLen == 50
DupWindowSec == 2
MsPerSec == 1000
TtsCacheMaxSize == 20
TtsMinLength == 10
HashPrefixLen == 50

COORD == "liminal_market_opportunity_coordinator"
USER == "user"
Authors == {COORD, "agentX"}
InvIds == {"", "i1"}
Texts == {<<>>, <<1>>, <<2>>}
FragTimestamps == {0, 5}
TickSteps == {1, DupWindowSec * MsPerSec}
StartNow == 6 * MsPerSec
CallIds == 1..MaxCalls
SessionIds == 1..2

\* The fragments a response carries in the model.  Of the coordinator: partial
\* fragments of an invocation, terminal fragments of an invocation with and
\* without a producer timestamp, fragments without text, and fragments
\* without invocation id.  Of the other agent: a partial and a terminal
\* fragment of an invocation.
Fragments ==
  [author : {COORD}, invocation_id : {"i1"}, partial : {TRUE},
   text : Texts, timestamp : {5}]
  \cup [author : {COORD}, invocation_id : {"i1"}, partial : {FALSE},
        text : Texts \ {<<>>}, timestamp : FragTimestamps]
  \cup [author : {COORD}, invocation_id : {"i1"}, partial : {FALSE},
        text : {<<>>}, timestamp : {5}]
  \cup [author : {COORD}, invocation_id : {""}, partial : BOOLEAN,
        text : {<<1>>}, timestamp : {5}]
  \cup [author : Authors \ {COORD}, invocation_id : {"i1"}, partial : BOOLEAN,
        text : {<<1>>}, timestamp : {5}]

VARIABLES
  currentSession,     \* AgentDevUI state currentSession (0: '')
  sessionEvents,      \* AgentDevUI state sessionEvents: the transcript
  processedEvents,    \* processedEventsRef.current
  loadPending,        \* sessions whose GET of handleSessionChange is in flight
  events,             \* useSSE state events
  eventsDirty,        \* a render with a new events array has not yet run the effect
  isLoading,          \* useSSE state isLoading
  streamingMessages,  \* streamingMessagesRef.current (absent key = <<>>)
  calls,              \* the invocations of sendMessage: position and locals
  now,                \* Date.now()
  nFrags,             \* number of fragments parsed so far
  nTicks, nSwitches,  \* counters that bound the model
  lastSeq,            \* history: parse number of the event the effect ran on last
  lastApplied,        \* history: the event the effect ran on last
  afterLast,          \* history: the transcript right after that run
  lastAiResponse      \* AgentDevUI state lastAiResponse (the prop lastAiMessage)

chatVars == <<currentSession, sessionEvents, processedEvents, loadPending, events,
              eventsDirty, isLoading, streamingMessages, calls, now,
              nFrags, nTicks, nSwitches, lastSeq, lastApplied, afterLast,
              lastAiResponse>>

VARIABLES
  isListening,        \* MessageInput state isListening
  isMuted,            \* MessageInput state isMuted
  isPlaying,          \* MessageInput state isPlaying
  isGeneratingTTS,    \* MessageInput state isGeneratingTTS
  conversationMode,   \* MessageInput state conversationMode
  recognition,        \* the SpeechRecognition object in recognitionRef.current
  effListening,       \* isListening as the effect that made that object closed over it
  orphans,            \* recognition objects of earlier runs of the effect, still live
  currentAudioSource, \* currentAudioSourceRef.current (0: null)
  pendingTTS,         \* pendingTTSRef.current: the utterance whose controller it holds
  ttsCache,           \* the Map of the TTSCache singleton, in insertion order
  utterances,         \* the invocations of generateAndPlayTTS: position and locals
  restartTimers       \* pending timers of toggleConversationMode and recognition.onend

VARIABLES
  playbackTimers,     \* pending timers of source.onended (they call startListening)
  silenceTimer,       \* the pending timer of silenceTimeoutRef: its transcript (<<>>: none)
  transcript,         \* MessageInput state transcript
  isProcessing,       \* isProcessingRef.current
  dispatched,         \* the texts processSpeech has passed to onSendMessage, in order
  nFinals,            \* history: number of final results reported so far
  userStopped,        \* history: stopListening ran since the capture was last started
  lastProcessedMessage, \* lastProcessedMessageRef.current
  ttsTimers,          \* pending timers of the effect on lastAiMessage, oldest first
  synthCalls          \* history: the calls of generateAndPlayTTS by those timers that
                      \* passed its guard: the text, and the latest send at that time

dictVars == <<transcript, isProcessing, dispatched, nFinals, userStopped>>
triggerVars == <<lastProcessedMessage, ttsTimers, synthCalls>>
speechVars == <<playbackTimers, dictVars, triggerVars>>

voiceVars == <<isListening, isMuted, isPlaying, isGeneratingTTS, conversationMode,
               recognition, effListening, orphans, currentAudioSource, pendingTTS,
               ttsCache, utterances, restartTimers, silenceTimer, speechVars>>

VARIABLES
  lruCache,           \* the Maps cache and accessTime of the TTSCache of MessageInput.tsx
  nTexts              \* number of distinct texts handed to TTSCache.set so far

cacheVars == <<lruCache, nTexts>>

VARIABLES
  wire,               \* the characters of the response body of one sendMessage call
  wirePos,            \* how many of them reader.read() has handed over
  readerDone,         \* reader.read() has returned done
  buffer,             \* the local buffer of sendMessage
  lineEvents,         \* the local finalEvents of that call
  published,          \* the argument of its last setEvents call
  parsed,             \* history: the values JSON.parse has returned, in order
  cutInside           \* history: a chunk has ended inside a line

parserVars == <<wire, wirePos, readerDone, buffer, lineEvents, published, parsed,
                cutInside>>

VARIABLES
  tabEvents,          \* the events prop of EventsTab (the page's sessionEvents)
  conversationBlocks  \* the conversationBlocks of its last render

blockVars == <<tabEvents, conversationBlocks>>

VARIABLES
  latestEvent,        \* the event the SSE effect of the page is run with
  extracted           \* where that run stands: "pending", "discarded" or "extracted"

extractVars == <<latestEvent, extracted>>

VARIABLES
  loadFailed          \* history: the sessions whose last GET of the events failed

VARIABLES
  parsedText,         \* history: the fragments with text the read loop has parsed
  effectSeen          \* history: parse numbers of the events the effect has run on
trackVars == <<parsedText, effectSeen>>

VARIABLES
  stored,             \* history: the pairs of text and bytes handed to set()
  served,             \* the last get(): its text and what each cache returned
  nStores             \* counter that bounds the model
serveVars == <<stored, served, nStores>>

VARIABLES
  wsState,            \* the WebSocket made by connect(): none, connecting, open, closed
  isConnected,        \* useWebSocket state isConnected
  reconnectAttempts,  \* useWebSocket state reconnectAttempts
  connectAttempts,    \* reconnectAttempts as the connect callback in use closed over it
  reconnectTimer,     \* the timer of reconnectTimeoutRef is pending
  reconnectOpt,       \* options.reconnect
  nMessages,          \* length of the events array of useWebSocket
  wsMounted,          \* the effect on [url] has run and its cleanup has not
  sinceOpen           \* history: connect() calls of the timer since the last open
socketVars == <<wsState, isConnected, reconnectAttempts, connectAttempts,
                reconnectTimer, reconnectOpt, nMessages, wsMounted, sinceOpen>>

laterVars == <<serveVars, socketVars>>

moreVars == <<extractVars, loadFailed, trackVars, laterVars>>

auxVars == <<cacheVars, parserVars, blockVars, moreVars>>

vars == <<chatVars, voiceVars, auxVars>>

(***************************************************************************)
(* Helpers                                                                 *)
(***************************************************************************)
Min(a, b) == IF a < b THEN a ELSE b
Abs(x) == IF x < 0 THEN -x ELSE x
Last(s) == s[Len(s)]

\* String.prototype.substring(0, n)
Substring(s, n) == SubSeq(s, 1, Min(n, Len(s)))

\* Line feed, carriage return, space
LF == 10
CR == 13
SP == 32

IsSpace(c) == c \in {SP, CR, LF, 9}

RECURSIVE TrimStart(_)
TrimStart(s) == IF s # <<>> /\ IsSpace(s[1]) THEN TrimStart(Tail(s)) ELSE s

RECURSIVE TrimEnd(_)
TrimEnd(s) ==
  IF s # <<>> /\ IsSpace(s[Len(s)]) THEN TrimEnd(SubSeq(s, 1, Len(s) - 1)) ELSE s

\* String.prototype.trim
Trim(s) == TrimEnd(TrimStart(s))

NoEvent == [author |-> "", invocation_id |-> "", partial |-> FALSE, text |-> <<>>,
            timestamp |-> 0, isStreaming |-> FALSE]

\* The fields of an SSE event that the program reads (seq and call are history).
Real(ev) == [author |-> ev.author, invocation_id |-> ev.invocation_id,
             partial |-> ev.partial, text |-> ev.text,
             timestamp |-> ev.timestamp, isStreaming |-> ev.isStreaming]

(***************************************************************************)
(* Streaming transport: useSSE                                             *)
(***************************************************************************)
\* History of a call: the shape of the fragments it has delivered so far.
\* "partials": only partial fragments of one author and one invocation id;
\* "closed": such a run followed by a terminal fragment of the same author
\* and id, whose text is kept; "other": anything else.
NoGen == [kind |-> "none", author |-> "", inv |-> "", text |-> <<>>]

GenStep(gen, f) ==
  IF f.invocation_id # "" /\ f.partial /\ gen.kind = "none"
    THEN [kind |-> "partials", author |-> f.author, inv |-> f.invocation_id, text |-> <<>>]
  ELSE IF f.invocation_id # "" /\ f.partial /\ gen.kind = "partials"
          /\ gen.author = f.author /\ gen.inv = f.invocation_id
    THEN gen
  ELSE IF f.invocation_id # "" /\ ~f.partial
          /\ \/ gen.kind = "none"
             \/ gen.kind = "partials" /\ gen.author = f.author
                                      /\ gen.inv = f.invocation_id
    THEN [kind |-> "closed", author |-> f.author, inv |-> f.invocation_id,
          text |-> f.text]
  ELSE [gen EXCEPT !.kind = "other"]

RECURSIVE GenSteps(_, _)
GenSteps(gen, frags) ==
  IF frags = <<>> THEN gen ELSE GenSteps(GenStep(gen, Head(frags)), Tail(frags))

\* pc, session and finalEvents are the call's position, the session_id of its
\* url and its local array; gen and fresh are history (fresh: the transcript
\* held no agent entry and nothing was marked processed when the call began).
\* caller is where handleSendMessage stands with this call: "waiting" at its
\* await, "completed" past it, "failed" in its catch block.
IdleCall == [pc |-> "idle", session |-> 0, finalEvents |-> <<>>,
             gen |-> NoGen, fresh |-> FALSE, caller |-> "none"]

\* How the promise of sendMessage settles when an error was thrown inside
\* its try block or not: the catch block logs the error and returns, so the
\* promise is fulfilled either way.
SendMessageSettles(thrown) == "fulfilled"

\* handleSendMessage after its await of sendMessage
CallerObserves(settled) == IF settled = "rejected" THEN "failed" ELSE "completed"

\* One "data: " line of the response, lines 162-200.  st carries the hook's
\* events and streamingMessagesRef and the call's finalEvents.
ProcessLine(st, data, c, seq) ==
  LET base == [author |-> data.author, invocation_id |-> data.invocation_id,
               partial |-> data.partial, text |-> data.text,
               timestamp |-> data.timestamp, isStreaming |-> FALSE,
               seq |-> seq, call |-> c]
  IN IF data.invocation_id # "" /\ data.partial
       THEN LET currentText == st.streaming[data.invocation_id]
                newText == data.text
                streamingEvent == [base EXCEPT !.text = currentText \o newText,
                                               !.isStreaming = TRUE]
            IN [events |-> <<streamingEvent>>,
                streaming |-> [st.streaming EXCEPT
                                 ![data.invocation_id] = currentText \o newText],
                finalEvents |-> st.finalEvents]
     ELSE IF data.invocation_id # "" /\ ~data.partial
       THEN LET completeEvent == [base EXCEPT !.isStreaming = FALSE]
            IN [events |-> <<completeEvent>>,
                streaming |-> [st.streaming EXCEPT ![data.invocation_id] = <<>>],
                finalEvents |-> Append(st.finalEvents, completeEvent)]
     ELSE [events |-> Append(st.finalEvents, base),
           streaming |-> st.streaming,
           finalEvents |-> Append(st.finalEvents, base)]

RECURSIVE ProcessLines(_, _, _, _)
ProcessLines(st, frags, c, seq) ==
  IF frags = <<>> THEN st
  ELSE ProcessLines(ProcessLine(st, Head(frags), c, seq + 1), Tail(frags), c, seq + 1)

(***************************************************************************)
(* Event reconciler: the SSE effect of AgentDevUI                          *)
(***************************************************************************)
\* const latestEvent = sseEvents[sseEvents.length - 1]
LatestEvent_First(evs) == evs[1]
LatestEvent(evs) == evs[Len(evs)]

\* `${author}-${timestamp || Date.now()}-${text.substring(0, 50)}`: the three
\* parts are kept apart; a producer timestamp (seconds) and the local clock
\* (milliseconds) print as different numbers.
EventKey(latest, clock) ==
  [author |-> latest.author,
   ts |-> IF latest.timestamp # 0 THEN <<"s", latest.timestamp>> ELSE <<"ms", clock>>,
   text |-> Substring(latest.text, KeyPrefixLen)]

\* processedEventsRef.current.has(eventKey) && !latestEvent.isStreaming
AlreadyProcessed(processed, latest, clock) ==
  EventKey(latest, clock) \in processed /\ ~latest.isStreaming

\* The guard of the in-place streaming update.
CanUpdateStreaming(prev, latest) ==
  /\ latest.isStreaming \/ latest.partial
  /\ Len(prev) >= 1
  /\ prev[Len(prev)].author = latest.author
  /\ prev[Len(prev)].isStreaming

\* updated[lastIndex] = {...updated[lastIndex], text, isStreaming: true}
UpdateStreaming(prev, latest, sess) ==
  [prev EXCEPT ![Len(prev)] =
     [@ EXCEPT !.text = latest.text, !.isStreaming = TRUE,
               !.call = latest.call, !.sess = sess]]

EventToAdd(latest, clock, sess) ==
  [author |-> IF latest.author # "" THEN latest.author ELSE "assistant",
   text |-> latest.text,
   timestamp |-> IF latest.timestamp # 0 THEN latest.timestamp * MsPerSec ELSE clock,
   isStreaming |-> latest.isStreaming,
   call |-> latest.call, sess |-> sess]

\* !latestEvent.partial && !latestEvent.isStreaming
IsFinal(latest) == ~latest.partial /\ ~latest.isStreaming

\* The guard of "replace streaming message with final version".
CanReplaceFinal_Never(prev, eventToAdd) == FALSE
CanReplaceFinal(prev, eventToAdd) ==
  /\ Len(prev) >= 1
  /\ prev[Len(prev)].author = eventToAdd.author
  /\ prev[Len(prev)].isStreaming

ReplaceFinal(prev, eventToAdd) ==
  [prev EXCEPT ![Len(prev)] = [eventToAdd EXCEPT !.isStreaming = FALSE]]

IsDuplicate(prev, eventToAdd) ==
  \E i \in DOMAIN prev :
    /\ prev[i].author = eventToAdd.author
    /\ prev[i].text = eventToAdd.text
    /\ ~prev[i].isStreaming
    /\ Abs(prev[i].timestamp - eventToAdd.timestamp) < DupWindowSec * MsPerSec

\* The updater passed to setSessionEvents.
Reconcile(prev, latest, clock, sess) ==
  IF CanUpdateStreaming(prev, latest) THEN UpdateStreaming(prev, latest, sess)
  ELSE LET eventToAdd == EventToAdd(latest, clock, sess)
       IN IF IsFinal(latest) /\ CanReplaceFinal(prev, eventToAdd)
            THEN ReplaceFinal(prev, eventToAdd)
          ELSE IF IsDuplicate(prev, eventToAdd) THEN prev
          ELSE Append(prev, eventToAdd)

\* The side effect of the updater on processedEventsRef.
MarkProcessed(prev, processed, latest, clock) ==
  IF ~CanUpdateStreaming(prev, latest) /\ IsFinal(latest)
    THEN processed \cup {EventKey(latest, clock)}
  ELSE processed

\* The effect returns before setSessionEvents: nothing to apply.
EffectSkips(evs, processed, clock) ==
  \/ Len(evs) = 0
  \/ LatestEvent(evs).text = <<>>
  \/ AlreadyProcessed(processed, LatestEvent(evs), clock)

\* The text the updater hands to setLastAiResponse (the timer of 0 ms it sets
\* is taken to fire at once), or the current value if it sets none.
TtsMessage(prev, processed, evs, clock, current) ==
  IF EffectSkips(evs, processed, clock) THEN current
  ELSE IF /\ ~CanUpdateStreaming(prev, LatestEvent(evs))
          /\ IsFinal(LatestEvent(evs))
          /\ LatestEvent(evs).author = COORD
         THEN LatestEvent(evs).text
       ELSE current

\* The whole effect on [sseEvents] as a function of the transcript.
\* sessOf gives, for history, the session of the call an event came from.
ApplyFragment(prev, processed, evs, clock, sessOf) ==
  IF EffectSkips(evs, processed, clock) THEN prev
  ELSE Reconcile(prev, LatestEvent(evs), clock, sessOf[LatestEvent(evs).call])

ApplyProcessed(prev, processed, evs, clock) ==
  IF EffectSkips(evs, processed, clock) THEN processed
  ELSE MarkProcessed(prev, processed, LatestEvent(evs), clock)

(***************************************************************************)
(* Event reconciler of the second chat page, app/(pages)/chat/page.tsx     *)
(***************************************************************************)
\* The guard of its in-place update: the last entry has the event's author.
PagesCanUpdateStreaming(prev, latest) ==
  /\ latest.isStreaming \/ latest.partial
  /\ Len(prev) >= 1
  /\ prev[Len(prev)].author = latest.author

\* prev.some(e => same author, same text, !e.isStreaming)
PagesExists(prev, eventToAdd) ==
  \E i \in DOMAIN prev :
    /\ prev[i].author = eventToAdd.author
    /\ prev[i].text = eventToAdd.text
    /\ ~prev[i].isStreaming

\* The updater passed to setSessionEvents.
PagesReconcile(prev, latest, clock, sess) ==
  IF PagesCanUpdateStreaming(prev, latest) THEN UpdateStreaming(prev, latest, sess)
  ELSE LET eventToAdd == EventToAdd(latest, clock, sess)
       IN IF IsFinal(latest) /\ CanReplaceFinal(prev, eventToAdd)
            THEN ReplaceFinal(prev, eventToAdd)
          ELSE IF PagesExists(prev, eventToAdd) THEN prev
          ELSE Append(prev, eventToAdd)

\* The text that updater hands to setLastAiResponse, or the current value.
PagesTtsMessage(prev, evs, clock, current) ==
  IF Len(evs) = 0 \/ LatestEvent(evs).text = <<>> THEN current
  ELSE IF PagesCanUpdateStreaming(prev, LatestEvent(evs)) THEN current
  ELSE LET eventToAdd == EventToAdd(LatestEvent(evs), clock, 0)
           complete == eventToAdd.author # USER /\ ~eventToAdd.isStreaming
       IN IF IsFinal(LatestEvent(evs)) /\ CanReplaceFinal(prev, eventToAdd)
            THEN (IF complete THEN eventToAdd.text ELSE current)
          ELSE IF PagesExists(prev, eventToAdd) THEN current
          ELSE IF complete THEN eventToAdd.text ELSE current

\* The whole effect on [sseEvents] of that page.
PagesApplyFragment(prev, evs, clock, sessOf) ==
  IF Len(evs) = 0 \/ LatestEvent(evs).text = <<>> THEN prev
  ELSE PagesReconcile(prev, LatestEvent(evs), clock, sessOf[LatestEvent(evs).call])

(***************************************************************************)
(* Initial state: the page after construction                              *)
(***************************************************************************)
ChatInit ==
  /\ currentSession = 0
  /\ sessionEvents = <<>>
  /\ processedEvents = {}
  /\ loadPending = {}
  /\ events = <<>>
  /\ eventsDirty = FALSE
  /\ isLoading = FALSE
  /\ streamingMessages = [i \in InvIds \ {""} |-> <<>>]
  /\ calls = [c \in CallIds |-> IdleCall]
  /\ now = StartNow
  /\ nFrags = 0 /\ nTicks = 0 /\ nSwitches = 0
  /\ lastSeq = 0
  /\ lastApplied = NoEvent
  /\ afterLast = <<>>
  /\ lastAiResponse = <<>>

histVarsUnchanged == UNCHANGED <<lastSeq, lastApplied, afterLast>>

(***************************************************************************)
(* Actions of the chat page and the transport                              *)
(***************************************************************************)
UserText == <<9>>

UserMessage(text) ==
  [author |-> USER, text |-> text, timestamp |-> now, isStreaming |-> FALSE,
   call |-> 0, sess |-> currentSession]

\* handleSendMessage: append the user message, then sendMessage up to its
\* first await (the fetch).  With no session the hook's url is null and
\* sendMessage returns at once.
HandleSendMessage(c) ==
  /\ UNCHANGED <<voiceVars, auxVars>>
  /\ calls[c].pc = "idle"
  /\ \A d \in CallIds : d < c => calls[d].pc # "idle"
  /\ sessionEvents' = Append(sessionEvents, UserMessage(UserText))
  /\ IF currentSession = 0
       THEN /\ calls' = [calls EXCEPT
                 ![c].pc = "done",
                 ![c].caller = CallerObserves(SendMessageSettles(FALSE))]
            /\ UNCHANGED <<isLoading, events, eventsDirty, streamingMessages>>
       ELSE /\ isLoading' = TRUE
            /\ events' = <<>>
            /\ eventsDirty' = TRUE
            /\ streamingMessages' = [i \in InvIds \ {""} |-> <<>>]
            /\ calls' = [calls EXCEPT ![c] =
                 [pc |-> "fetching", session |-> currentSession,
                  finalEvents |-> <<>>, gen |-> NoGen, caller |-> "waiting",
                  fresh |-> /\ processedEvents = {}
                            /\ \A i \in DOMAIN sessionEvents :
                                 sessionEvents[i].author = USER]]
  /\ UNCHANGED <<currentSession, processedEvents, loadPending, now,
                 nFrags, nTicks, nSwitches>>
  /\ histVarsUnchanged
  /\ UNCHANGED lastAiResponse

\* The POST resolves: a 2xx response starts the read loop, anything else
\* throws into catch/finally.
FetchResponds(c, ok) ==
  /\ UNCHANGED <<voiceVars, auxVars>>
  /\ calls[c].pc = "fetching"
  /\ IF ok
       THEN /\ calls' = [calls EXCEPT ![c].pc = "reading"]
            /\ UNCHANGED isLoading
       ELSE /\ calls' = [calls EXCEPT
                 ![c].pc = "done",
                 ![c].caller = CallerObserves(SendMessageSettles(TRUE))]
            /\ isLoading' = FALSE
  /\ UNCHANGED <<currentSession, sessionEvents, processedEvents, loadPending, events,
                 eventsDirty, streamingMessages, now, nFrags, nTicks, nSwitches>>
  /\ histVarsUnchanged
  /\ UNCHANGED lastAiResponse

\* One reader.read() that carries the complete lines frags.
ChunkRead(c, frags) ==
  /\ calls[c].pc = "reading"
  /\ nFrags + Len(frags) <= MaxFrags
  /\ LET st == ProcessLines([events |-> events, streaming |-> streamingMessages,
                             finalEvents |-> calls[c].finalEvents],
                            frags, c, nFrags)
     IN /\ events' = st.events
        /\ streamingMessages' = st.streaming
        /\ calls' = [calls EXCEPT ![c].finalEvents = st.finalEvents,
                                  ![c].gen = GenSteps(@, frags)]
  /\ eventsDirty' = TRUE
  /\ nFrags' = nFrags + Len(frags)
  /\ UNCHANGED <<currentSession, sessionEvents, processedEvents, loadPending,
                 isLoading, now, nTicks, nSwitches, lastSeq, lastApplied, afterLast,
                 lastAiResponse>>

ReadChunk(c, frags) ==
  /\ UNCHANGED <<voiceVars, auxVars>>
  /\ ChunkRead(c, frags)

\* The same read, with the fragments that carry text recorded under their
\* parse numbers.
ReadChunkTracked(c, frags) ==
  /\ ChunkRead(c, frags)
  /\ parsedText' = parsedText \cup
       {[seq |-> nFrags + i, partial |-> frags[i].invocation_id # "" /\ frags[i].partial] :
          i \in {j \in DOMAIN frags : frags[j].text # <<>>}}
  /\ UNCHANGED <<effectSeen, voiceVars, cacheVars, parserVars, blockVars,
                 extractVars, loadFailed, laterVars>>

\* reader.read() reports done (or throws): finally { setIsLoading(false) }
StreamEnds(c) ==
  /\ UNCHANGED <<voiceVars, auxVars>>
  /\ calls[c].pc = "reading"
  /\ calls' = [calls EXCEPT ![c].pc = "done",
                            ![c].caller = CallerObserves(SendMessageSettles(FALSE))]
  /\ isLoading' = FALSE
  /\ UNCHANGED <<currentSession, sessionEvents, processedEvents, loadPending, events,
                 eventsDirty, streamingMessages, now, nFrags, nTicks, nSwitches>>
  /\ histVarsUnchanged
  /\ UNCHANGED lastAiResponse

\* The render that sees a new events array runs the effect on [sseEvents];
\* the updater it queues is applied in the same step.
EffectRuns ==
  /\ eventsDirty
  /\ eventsDirty' = FALSE
  /\ sessionEvents' = ApplyFragment(sessionEvents, processedEvents, events, now,
                                    [c \in CallIds |-> calls[c].session])
  /\ processedEvents' = ApplyProcessed(sessionEvents, processedEvents, events, now)
  /\ lastAiResponse' = TtsMessage(sessionEvents, processedEvents, events, now,
                                  lastAiResponse)
  /\ IF Len(events) = 0
       THEN UNCHANGED <<lastSeq, lastApplied, afterLast>>
       ELSE /\ lastSeq' = LatestEvent(events).seq
            /\ lastApplied' = Real(LatestEvent(events))
            /\ afterLast' = sessionEvents'
  /\ UNCHANGED <<currentSession, loadPending, events, isLoading, streamingMessages,
                 calls, now, nFrags, nTicks, nSwitches>>

EffectSSE ==
  /\ UNCHANGED <<voiceVars, auxVars>>
  /\ EffectRuns

\* The same run, with the parse number of the event it reads recorded.
EffectTracked ==
  /\ EffectRuns
  /\ effectSeen' = IF Len(events) = 0 THEN effectSeen
                   ELSE effectSeen \cup {LatestEvent(events).seq}
  /\ UNCHANGED <<parsedText, voiceVars, cacheVars, parserVars, blockVars,
                 extractVars, loadFailed, laterVars>>

\* The same render of the second chat page: its effect reads no processed set.
PagesEffectSSE ==
  /\ UNCHANGED <<voiceVars, auxVars>>
  /\ eventsDirty
  /\ eventsDirty' = FALSE
  /\ sessionEvents' = PagesApplyFragment(sessionEvents, events, now,
                                         [c \in CallIds |-> calls[c].session])
  /\ lastAiResponse' = PagesTtsMessage(sessionEvents, events, now, lastAiResponse)
  /\ IF Len(events) = 0
       THEN UNCHANGED <<lastSeq, lastApplied, afterLast>>
       ELSE /\ lastSeq' = LatestEvent(events).seq
            /\ lastApplied' = Real(LatestEvent(events))
            /\ afterLast' = sessionEvents'
  /\ UNCHANGED <<currentSession, processedEvents, loadPending, events, isLoading,
                 streamingMessages, calls, now, nFrags, nTicks, nSwitches>>

SwitchCounted ==
  /\ currentSession # 0
  /\ nSwitches < MaxSwitches
  /\ nSwitches' = nSwitches + 1

\* handleNewSession
HandleNewSession(s) ==
  /\ UNCHANGED <<voiceVars, auxVars>>
  /\ s # currentSession
  /\ SwitchCounted
  /\ currentSession' = s
  /\ sessionEvents' = <<>>
  /\ processedEvents' = {}
  /\ UNCHANGED <<loadPending, events, eventsDirty, isLoading, streamingMessages,
                 calls, now, nFrags, nTicks>>
  /\ histVarsUnchanged
  /\ lastAiResponse' = <<>>

\* handleSessionChange up to its await of the GET
HandleSessionChange(s) ==
  /\ UNCHANGED <<voiceVars, auxVars>>
  /\ SwitchCounted
  /\ currentSession' = s
  /\ sessionEvents' = <<>>
  /\ processedEvents' = {}
  /\ loadPending' = loadPending \cup {s}
  /\ UNCHANGED <<events, eventsDirty, isLoading, streamingMessages,
                 calls, now, nFrags, nTicks>>
  /\ histVarsUnchanged
  /\ lastAiResponse' = <<>>

\* initializeSession (the mount effect, once userId is set): the session list
\* is fetched and its first session, or a newly created one, is selected with
\* handleSessionChange; if a request fails, handleNewSession runs instead.
InitializeSession(s, ok) ==
  /\ UNCHANGED <<voiceVars, auxVars>>
  /\ currentSession = 0
  /\ currentSession' = s
  /\ sessionEvents' = <<>>
  /\ processedEvents' = {}
  /\ loadPending' = IF ok THEN loadPending \cup {s} ELSE loadPending
  /\ UNCHANGED <<events, eventsDirty, isLoading, streamingMessages,
                 calls, now, nFrags, nTicks, nSwitches>>
  /\ histVarsUnchanged
  /\ lastAiResponse' = <<>>

\* The stored events of a session as the backend returns them.
HistoryEntry(s) ==
  [author |-> COORD, text |-> <<1>>, timestamp |-> 5 * MsPerSec, isStreaming |-> FALSE,
   call |-> 0, sess |-> s]
Histories(s) == {<<>>, <<HistoryEntry(s)>>}

HistoryKey(e) ==
  [author |-> e.author, ts |-> <<"s", e.timestamp \div MsPerSec>>,
   text |-> Substring(e.text, KeyPrefixLen)]

\* The last complete coordinator message of the loaded events, which
\* handleSessionChange hands to setLastAiResponse (the timer of 100 ms it sets
\* is taken to fire at once); the current value if there is none.
LastAiMessage(hist, current) ==
  LET found == {i \in DOMAIN hist : /\ hist[i].author = COORD
                                    /\ hist[i].text # <<>>
                                    /\ ~hist[i].isStreaming}
  IN IF found = {} THEN current
     ELSE hist[CHOOSE i \in found : \A j \in found : j <= i].text

\* handleSessionChange after the GET: mark the loaded events, show them.
\* A failed GET is caught and changes nothing.
LoadSettled(s, ok, hist) ==
  /\ s \in loadPending
  /\ loadPending' = loadPending \ {s}
  /\ IF ok
       THEN /\ processedEvents' = processedEvents \cup
                 {HistoryKey(hist[i]) : i \in {j \in DOMAIN hist : hist[j].text # <<>>}}
            /\ sessionEvents' = hist
       ELSE UNCHANGED <<processedEvents, sessionEvents>>
  /\ UNCHANGED <<currentSession, events, eventsDirty, isLoading, streamingMessages,
                 calls, now, nFrags, nTicks, nSwitches>>
  /\ histVarsUnchanged
  /\ lastAiResponse' = IF ok THEN LastAiMessage(hist, lastAiResponse)
                       ELSE lastAiResponse

LoadDone(s, ok, hist) ==
  /\ UNCHANGED <<voiceVars, auxVars>>
  /\ LoadSettled(s, ok, hist)

\* The same step, with the outcome of the GET recorded.
LoadReturns(s, ok, hist) ==
  /\ LoadSettled(s, ok, hist)
  /\ loadFailed' = IF ok THEN loadFailed \ {s} ELSE loadFailed \cup {s}
  /\ UNCHANGED <<voiceVars, cacheVars, parserVars, blockVars, extractVars, trackVars,
                 laterVars>>

\* Time passes.
Tick(d) ==
  /\ UNCHANGED <<voiceVars, auxVars>>
  /\ nTicks < MaxTicks
  /\ nTicks' = nTicks + 1
  /\ now' = now + d
  /\ UNCHANGED <<currentSession, sessionEvents, processedEvents, loadPending, events,
                 eventsDirty, isLoading, streamingMessages, calls, nFrags, nSwitches>>
  /\ histVarsUnchanged
  /\ UNCHANGED lastAiResponse

(***************************************************************************)
(* Voice pipeline: MessageInput (speech capture, synthesis, playback)      *)
(*                                                                         *)
(* A handler run from the page (a click) reads the state of the current    *)
(* render.  A callback that runs later (a timer, an event of a recognition *)
(* object or of an audio source) reads what its closure captured; the      *)
(* model evaluates those reads when the closure is made.  React applies    *)
(* the state updates of one handler in one render, and the effect that     *)
(* makes the recognition object runs again in that render when             *)
(* conversationMode, isPlaying or isGeneratingTTS changed.  The audio      *)
(* context is taken to be running, and every text to be Latin-1 (btoa      *)
(* throws on anything else).                                               *)
(***************************************************************************)
TextA == <<72, 101, 108, 108, 111, 32, 119, 111, 114, 108, 100>>
TextB == <<72, 101, 108, 108, 111, 32, 116, 104, 101, 114, 101, 33>>
TtsTexts == {TextA, TextB}
AudioBytes == {1, 2}
UttIds == 1..MaxUtterances

\* btoa: the base64 digits (0..63) of a sequence of bytes, three bytes to
\* four digits; the padding '=' is not a digit.
RECURSIVE Base64Digits(_)
Base64Digits(b) ==
  IF Len(b) = 0 THEN <<>>
  ELSE IF Len(b) = 1 THEN <<b[1] \div 4, (b[1] % 4) * 16>>
  ELSE IF Len(b) = 2
    THEN <<b[1] \div 4, (b[1] % 4) * 16 + b[2] \div 16, (b[2] % 16) * 4>>
  ELSE <<b[1] \div 4, (b[1] % 4) * 16 + b[2] \div 16,
         (b[2] % 16) * 4 + b[3] \div 64, b[3] % 64>>
       \o Base64Digits(SubSeq(b, 4, Len(b)))

\* The digits 62 ('+') and 63 ('/') are not in [a-zA-Z0-9].
IsAlphaNum(d) == d < 62

\* TTSCache.hashText
HashText(text) == SelectSeq(Base64Digits(Substring(text, HashPrefixLen)), IsAlphaNum)

\* TTSCache.get: the stored bytes, or 0 for null.
CacheGet_Miss(cache, text) == 0
CacheGet(cache, text) ==
  IF \E i \in DOMAIN cache : cache[i].key = HashText(text)
    THEN cache[CHOOSE i \in DOMAIN cache : cache[i].key = HashText(text)].bytes
  ELSE 0

\* Map.prototype.set: a present key keeps its place, a new key goes last.
MapSet(cache, key, bytes) ==
  IF \E i \in DOMAIN cache : cache[i].key = key
    THEN [i \in DOMAIN cache |->
            IF cache[i].key = key THEN [key |-> key, bytes |-> bytes] ELSE cache[i]]
  ELSE Append(cache, [key |-> key, bytes |-> bytes])

\* TTSCache.set
CacheSet(cache, text, bytes) ==
  MapSet(IF Len(cache) >= TtsCacheMaxSize THEN Tail(cache) ELSE cache,
         HashText(text), bytes)

\* An invocation of generateAndPlayTTS and the playback it starts.  pc:
\* "fetching" (await fetch), "body" (await response.arrayBuffer()), "decoding"
\* (playAudioBuffer awaits decodeAudioData), "playing" (source.start(0) ran),
\* "stopped" (source.stop() ran, its ended event is pending), "ended", "done"
\* (returned without a source).  restart is what the closure of source.onended
\* captured: conversationMode && !isListening.  requested, hit and outcome
\* are history.
IdleUtterance ==
  [pc |-> "idle", text |-> <<>>, aborted |-> FALSE, bytes |-> 0, restart |-> FALSE,
   requested |-> FALSE, hit |-> FALSE, outcome |-> "none"]

VoiceInit ==
  /\ isListening = FALSE
  /\ isMuted = FALSE
  /\ isPlaying = FALSE
  /\ isGeneratingTTS = FALSE
  /\ conversationMode = FALSE
  /\ recognition = "idle"
  /\ effListening = FALSE
  /\ orphans = {}
  /\ currentAudioSource = 0
  /\ pendingTTS = 0
  /\ ttsCache = <<>>
  /\ utterances = [u \in UttIds |-> IdleUtterance]
  /\ restartTimers = 0
  /\ playbackTimers = 0
  /\ silenceTimer = <<>>
  /\ transcript = <<>>
  /\ isProcessing = FALSE
  /\ dispatched = <<>>
  /\ nFinals = 0
  /\ userStopped = FALSE
  /\ lastProcessedMessage = <<>>
  /\ ttsTimers = <<>>
  /\ synthCalls = <<>>

CacheInit ==
  /\ lruCache = <<>>
  /\ nTexts = 0

\* The locals of a sendMessage call that has read nothing yet.
ParserInit ==
  /\ wirePos = 0
  /\ readerDone = FALSE
  /\ buffer = <<>>
  /\ lineEvents = <<>>
  /\ published = <<>>
  /\ parsed = <<>>
  /\ cutInside = FALSE

\* EventsTab before its first render
BlocksInit ==
  /\ tabEvents = <<>>
  /\ conversationBlocks = <<>>

\* No event has been handed to the effect.
NoLatestEvent ==
  [author |-> "", parts |-> <<>>, function_calls |-> 0, function_responses |-> 0,
   partial |-> FALSE]

ExtractInit ==
  /\ extracted = "pending"

TrackInit == parsedText = {} /\ effectSeen = {}

NoServe == [text |-> <<>>, tts |-> 0, lru |-> 0]
ServeInit == stored = {} /\ served = NoServe /\ nStores = 0

SocketIdle ==
  /\ wsState = "none"
  /\ isConnected = FALSE
  /\ reconnectAttempts = 0
  /\ connectAttempts = 0
  /\ reconnectTimer = FALSE
  /\ nMessages = 0
  /\ wsMounted = FALSE
  /\ sinceOpen = 0
SocketInit == SocketIdle /\ reconnectOpt = TRUE

LaterInit == ServeInit /\ SocketInit

MoreInit ==
  /\ ExtractInit /\ latestEvent = NoLatestEvent /\ loadFailed = {} /\ TrackInit
  /\ LaterInit

AuxInit == CacheInit /\ ParserInit /\ wire = <<>> /\ BlocksInit /\ MoreInit

Init == ChatInit /\ VoiceInit /\ AuxInit

\* stopCurrentAudio on the utterances: the source in currentAudioSourceRef is
\* stopped and the controller in pendingTTSRef is aborted.
StoppedUtterances ==
  [u \in UttIds |->
     [utterances[u] EXCEPT
        !.pc = IF u = currentAudioSource THEN "stopped" ELSE @,
        !.aborted = IF u = pendingTTS THEN TRUE ELSE @]]

\* recognition.start(): an object that has been started throws, which the
\* caller catches.
Started(rec) == IF rec = "idle" THEN "starting" ELSE rec

\* recognition.stop()
RecStopped(rec) == IF rec \in {"starting", "active"} THEN "stopping" ELSE rec

\* What a timer set by an end of recognition does: it calls startListening
\* if conversationMode && !isPlaying && !isGeneratingTTS, and startListening
\* returns if isListening; all four are read from the closure of the effect.
EffectRestarts ==
  conversationMode /\ ~isPlaying /\ ~isGeneratingTTS /\ ~effListening

\* The render after a handler: if a dependency of the recognition effect
\* changed, its cleanup runs (it stops the object if the closure's
\* isListening is true) and a new object takes its place in recognitionRef.
\* The cleanup also clears the timer of silenceTimeoutRef.  rec and timer are
\* the state the handler left the current object and that timer in.
Render(rec, timer) ==
  IF <<conversationMode', isPlaying', isGeneratingTTS'>>
       = <<conversationMode, isPlaying, isGeneratingTTS>>
    THEN /\ recognition' = rec
         /\ silenceTimer' = timer
         /\ UNCHANGED <<effListening, orphans>>
    ELSE /\ recognition' = "idle"
         /\ silenceTimer' = <<>>
         /\ effListening' = isListening'
         /\ orphans' = IF rec = "idle" THEN orphans
                       ELSE orphans \cup
                              {[st |-> IF effListening THEN RecStopped(rec) ELSE rec,
                                restart |-> EffectRestarts]}

RenderRecognition(rec) == Render(rec, silenceTimer)

AddTimer(n, set) == IF set THEN Min(n + 1, MaxTimers) ELSE n

\* stopCurrentAudio
StopCurrentAudio ==
  /\ utterances' = StoppedUtterances
  /\ currentAudioSource' = 0
  /\ pendingTTS' = 0
  /\ isPlaying' = FALSE
  /\ isGeneratingTTS' = FALSE

\* startListening, from a click on the voice button (the button calls it when
\* conversationMode and isListening are false).
StartListening ==
  /\ ~conversationMode /\ ~isListening
  /\ StopCurrentAudio
  /\ UNCHANGED <<isListening, isMuted, conversationMode, ttsCache, restartTimers>>
  /\ RenderRecognition(Started(recognition))
  /\ userStopped' = FALSE
  /\ UNCHANGED <<transcript, isProcessing, dispatched, nFinals>>
  /\ UNCHANGED <<chatVars, auxVars, playbackTimers, triggerVars>>

\* stopListening, from a click on the voice button: stop() and clearTimeout of
\* the silence timer
StopListening ==
  /\ ~conversationMode /\ isListening
  /\ recognition' = RecStopped(recognition)
  /\ UNCHANGED <<isListening, isMuted, isPlaying, isGeneratingTTS, conversationMode,
                 effListening, orphans, currentAudioSource, pendingTTS, ttsCache,
                 utterances, restartTimers>>
  /\ silenceTimer' = <<>>
  /\ userStopped' = TRUE
  /\ UNCHANGED <<transcript, isProcessing, dispatched, nFinals>>
  /\ UNCHANGED <<chatVars, auxVars, playbackTimers, triggerVars>>

\* toggleConversationMode: entering sets a timer that calls the startListening
\* of this render; leaving calls stopListening.
ToggleConversationMode ==
  /\ conversationMode' = ~conversationMode
  /\ restartTimers' = AddTimer(restartTimers, ~conversationMode /\ ~isListening)
  /\ UNCHANGED <<isListening, isMuted, isPlaying, isGeneratingTTS, currentAudioSource,
                 pendingTTS, ttsCache, utterances>>
  /\ RenderRecognition(IF conversationMode /\ isListening
                         THEN RecStopped(recognition) ELSE recognition)
  /\ UNCHANGED <<chatVars, auxVars, speechVars>>

\* A timer set by toggleConversationMode or recognition.onend runs
\* startListening with isListening false in its closure.
RestartTimerFires ==
  /\ restartTimers > 0
  /\ restartTimers' = restartTimers - 1
  /\ StopCurrentAudio
  /\ UNCHANGED <<isListening, isMuted, conversationMode, ttsCache>>
  /\ RenderRecognition(Started(recognition))
  /\ userStopped' = FALSE
  /\ UNCHANGED <<transcript, isProcessing, dispatched, nFinals>>
  /\ UNCHANGED <<chatVars, auxVars, playbackTimers, triggerVars>>

\* A timer set by source.onended fires: conversationMode && !isListening of
\* its closure held when it was set, so it runs the startListening of that
\* closure.
PlaybackTimerFires ==
  /\ playbackTimers > 0
  /\ playbackTimers' = playbackTimers - 1
  /\ StopCurrentAudio
  /\ UNCHANGED <<isListening, isMuted, conversationMode, ttsCache, restartTimers>>
  /\ RenderRecognition(Started(recognition))
  /\ userStopped' = FALSE
  /\ UNCHANGED <<transcript, isProcessing, dispatched, nFinals>>
  /\ UNCHANGED <<chatVars, auxVars, triggerVars>>

\* recognition.onstart of the object in recognitionRef
RecognitionOnStart ==
  /\ recognition = "starting"
  /\ recognition' = "active"
  /\ isListening' = TRUE
  /\ UNCHANGED <<isMuted, isPlaying, isGeneratingTTS, conversationMode, effListening,
                 orphans, currentAudioSource, pendingTTS, ttsCache, utterances,
                 restartTimers>>
  /\ UNCHANGED <<chatVars, auxVars, silenceTimer, speechVars>>

\* recognition.onend of the object in recognitionRef: after stop(), or when the
\* engine ends the capture by itself.
RecognitionOnEnd ==
  /\ recognition # "idle"
  /\ recognition' = "idle"
  /\ isListening' = FALSE
  /\ restartTimers' = AddTimer(restartTimers, EffectRestarts /\ ~isProcessing)
  /\ UNCHANGED <<isMuted, isPlaying, isGeneratingTTS, conversationMode, effListening,
                 orphans, currentAudioSource, pendingTTS, ttsCache, utterances>>
  /\ transcript' = <<>>
  /\ UNCHANGED <<silenceTimer, isProcessing, dispatched, nFinals, userStopped>>
  /\ UNCHANGED <<chatVars, auxVars, playbackTimers, triggerVars>>

\* onstart and onend of an object that is no longer in recognitionRef
OrphanOnStart(o) ==
  /\ o \in orphans /\ o.st = "starting"
  /\ orphans' = (orphans \ {o}) \cup {[o EXCEPT !.st = "active"]}
  /\ isListening' = TRUE
  /\ UNCHANGED <<isMuted, isPlaying, isGeneratingTTS, conversationMode, recognition,
                 effListening, currentAudioSource, pendingTTS, ttsCache, utterances,
                 restartTimers>>
  /\ UNCHANGED <<chatVars, auxVars, silenceTimer, speechVars>>

OrphanOnEnd(o) ==
  /\ o \in orphans
  /\ orphans' = orphans \ {o}
  /\ isListening' = FALSE
  /\ restartTimers' = AddTimer(restartTimers, o.restart /\ ~isProcessing)
  /\ UNCHANGED <<isMuted, isPlaying, isGeneratingTTS, conversationMode, recognition,
                 effListening, currentAudioSource, pendingTTS, ttsCache, utterances>>
  /\ transcript' = <<>>
  /\ UNCHANGED <<silenceTimer, isProcessing, dispatched, nFinals, userStopped>>
  /\ UNCHANGED <<chatVars, auxVars, playbackTimers, triggerVars>>

\* generateAndPlayTTS(text) up to its first await: the guards, stopCurrentAudio,
\* then either a cache hit and playAudioBuffer up to its await of
\* decodeAudioData, or the fetch.
\* muted and restart are isMuted and conversationMode && !isListening as the
\* closure that is called holds them.
Speakable(text, muted) ==
  ~muted /\ Trim(text) # <<>> /\ Len(text) >= TtsMinLength

SpeakWith(u, text, muted, restart) ==
  /\ Speakable(text, muted)
  /\ utterances[u].pc = "idle"
  /\ \A v \in UttIds : v < u => utterances[v].pc # "idle"
  /\ LET cachedAudio == CacheGet(ttsCache, text)
         base == [IdleUtterance EXCEPT !.text = text, !.restart = restart]
     IN IF cachedAudio # 0
          THEN /\ utterances' = [StoppedUtterances EXCEPT ![u] =
                    [base EXCEPT !.pc = "decoding", !.bytes = cachedAudio,
                                 !.hit = TRUE, !.outcome = "hit"]]
               /\ isPlaying' = TRUE
               /\ isGeneratingTTS' = FALSE
               /\ pendingTTS' = 0
          ELSE /\ utterances' = [StoppedUtterances EXCEPT ![u] =
                    [base EXCEPT !.pc = "fetching", !.requested = TRUE]]
               /\ isPlaying' = FALSE
               /\ isGeneratingTTS' = TRUE
               /\ pendingTTS' = u
  /\ currentAudioSource' = 0
  /\ UNCHANGED <<isListening, isMuted, conversationMode, ttsCache, restartTimers>>
  /\ RenderRecognition(recognition)
  /\ UNCHANGED <<chatVars, auxVars, playbackTimers, dictVars>>

\* generateAndPlayTTS of the current render
Speak(u, text) ==
  /\ SpeakWith(u, text, isMuted, conversationMode /\ ~isListening)
  /\ UNCHANGED triggerVars

\* The fetch settles: it rejects if the controller was aborted or the network
\* fails, and a response that is not ok throws; catch, then finally.
TtsFetchResolves(u, ok) ==
  /\ utterances[u].pc = "fetching"
  /\ IF utterances[u].aborted \/ ~ok
       THEN /\ utterances' = [utterances EXCEPT
                 ![u].pc = "done",
                 ![u].outcome = IF utterances[u].aborted THEN "aborted" ELSE "failed"]
            /\ isGeneratingTTS' = FALSE
       ELSE /\ utterances' = [utterances EXCEPT ![u].pc = "body"]
            /\ UNCHANGED isGeneratingTTS
  /\ UNCHANGED <<isListening, isMuted, isPlaying, conversationMode, currentAudioSource,
                 pendingTTS, ttsCache, restartTimers>>
  /\ RenderRecognition(recognition)
  /\ UNCHANGED <<chatVars, auxVars, speechVars>>

\* response.arrayBuffer() settles with the bytes b, or rejects (b = 0).  After
\* abort() it rejects if the body was still being read; if the body had been
\* read to its end and only the task that fulfils the promise was pending, it
\* is fulfilled, with signal.aborted true.
TtsBodyResolves(u, b) ==
  /\ utterances[u].pc = "body"
  /\ IF b = 0
       THEN /\ utterances' = [utterances EXCEPT
                 ![u].pc = "done",
                 ![u].outcome = IF utterances[u].aborted THEN "aborted" ELSE "failed"]
            /\ UNCHANGED <<ttsCache, isPlaying>>
       ELSE /\ ttsCache' = CacheSet(ttsCache, utterances[u].text, b)
            /\ IF utterances[u].aborted
                 THEN /\ utterances' = [utterances EXCEPT ![u].pc = "done",
                                                          ![u].bytes = b,
                                                          ![u].outcome = "aborted"]
                      /\ UNCHANGED isPlaying
                 ELSE /\ utterances' = [utterances EXCEPT ![u].pc = "decoding",
                                                          ![u].bytes = b,
                                                          ![u].outcome = "fetched"]
                      /\ isPlaying' = TRUE
  /\ isGeneratingTTS' = FALSE
  /\ UNCHANGED <<isListening, isMuted, conversationMode, currentAudioSource,
                 pendingTTS, restartTimers>>
  /\ RenderRecognition(recognition)
  /\ UNCHANGED <<chatVars, auxVars, speechVars>>

\* decodeAudioData settles: the source is made, stored in
\* currentAudioSourceRef and started; a rejection sets isPlaying false.
DecodeResolves(u, ok) ==
  /\ utterances[u].pc = "decoding"
  /\ IF ok
       THEN /\ utterances' = [utterances EXCEPT ![u].pc = "playing"]
            /\ currentAudioSource' = u
            /\ UNCHANGED isPlaying
       ELSE /\ utterances' = [utterances EXCEPT ![u].pc = "done"]
            /\ isPlaying' = FALSE
            /\ UNCHANGED currentAudioSource
  /\ UNCHANGED <<isListening, isMuted, isGeneratingTTS, conversationMode, pendingTTS,
                 ttsCache, restartTimers>>
  /\ RenderRecognition(recognition)
  /\ UNCHANGED <<chatVars, auxVars, speechVars>>

\* source.onended: the buffer has played to its end, or stop() was called.
SourceEnded(u) ==
  /\ utterances[u].pc \in {"playing", "stopped"}
  /\ utterances' = [utterances EXCEPT ![u].pc = "ended"]
  /\ currentAudioSource' = 0
  /\ isPlaying' = FALSE
  /\ playbackTimers' = AddTimer(playbackTimers, utterances[u].restart)
  /\ UNCHANGED <<isListening, isMuted, isGeneratingTTS, conversationMode, pendingTTS,
                 ttsCache, restartTimers>>
  /\ RenderRecognition(recognition)
  /\ UNCHANGED <<chatVars, auxVars, dictVars, triggerVars>>

\* A click on the stop button, shown while isPlaying or isGeneratingTTS.
ClickStopAudio ==
  /\ isPlaying \/ isGeneratingTTS
  /\ StopCurrentAudio
  /\ UNCHANGED <<isListening, isMuted, conversationMode, ttsCache, restartTimers>>
  /\ RenderRecognition(recognition)
  /\ UNCHANGED <<chatVars, auxVars, speechVars>>

\* toggleMute
ToggleMute ==
  /\ isMuted' = ~isMuted
  /\ IF ~isMuted
       THEN StopCurrentAudio
       ELSE UNCHANGED <<utterances, currentAudioSource, pendingTTS, isPlaying,
                        isGeneratingTTS>>
  /\ UNCHANGED <<isListening, conversationMode, ttsCache, restartTimers>>
  /\ RenderRecognition(recognition)
  /\ UNCHANGED <<chatVars, auxVars, speechVars>>

\* The transcript of the k-th final result, and that of an interim result
FinalText(k) == <<SP, 96 + k>>
InterimText == <<SP, 63>>

\* recognition.onresult of the object in recognitionRef, with one result that
\* is final or interim.  An object that was stopped still delivers the result
\* of the audio it had captured.  The pending silence timer is cleared; a
\* final result with text sets a new one.
RecognitionOnResult(final) ==
  /\ recognition \in {"active", "stopping"}
  /\ IF final
       THEN /\ nFinals < MaxFinals
            /\ nFinals' = nFinals + 1
            /\ transcript' = FinalText(nFinals + 1)
            /\ silenceTimer' = Trim(FinalText(nFinals + 1))
       ELSE /\ transcript' = InterimText
            /\ silenceTimer' = <<>>
            /\ UNCHANGED nFinals
  /\ UNCHANGED <<isListening, isMuted, isPlaying, isGeneratingTTS, conversationMode,
                 recognition, effListening, orphans, currentAudioSource, pendingTTS,
                 ttsCache, utterances, restartTimers>>
  /\ UNCHANGED <<isProcessing, dispatched, userStopped>>
  /\ UNCHANGED <<chatVars, auxVars, playbackTimers, triggerVars>>

\* The silence timer fires: processSpeech(text), up to its await of
\* onSendMessage.  isListening is read from the closure of the recognition
\* effect.
SilenceTimerFires ==
  /\ silenceTimer # <<>>
  /\ IF isProcessing
       THEN /\ silenceTimer' = <<>>
            /\ UNCHANGED <<isListening, isMuted, isPlaying, isGeneratingTTS,
                           conversationMode, recognition, effListening, orphans,
                           currentAudioSource, pendingTTS, ttsCache, utterances,
                           restartTimers>>
            /\ UNCHANGED <<transcript, isProcessing, dispatched>>
       ELSE /\ isProcessing' = TRUE
            /\ StopCurrentAudio
            /\ transcript' = <<>>
            /\ dispatched' = Append(dispatched, silenceTimer)
            /\ UNCHANGED <<isListening, isMuted, conversationMode, ttsCache,
                           restartTimers>>
            /\ Render(IF effListening THEN RecStopped(recognition) ELSE recognition,
                      <<>>)
  /\ UNCHANGED <<nFinals, userStopped>>
  /\ UNCHANGED <<chatVars, auxVars, playbackTimers, triggerVars>>

\* The await of onSendMessage in processSpeech settles.
VoiceSendReturns ==
  /\ isProcessing
  /\ isProcessing' = FALSE
  /\ UNCHANGED <<isListening, isMuted, isPlaying, isGeneratingTTS, conversationMode,
                 recognition, effListening, orphans, currentAudioSource, pendingTTS,
                 ttsCache, utterances, restartTimers, silenceTimer>>
  /\ UNCHANGED <<transcript, dispatched, nFinals, userStopped>>
  /\ UNCHANGED <<chatVars, auxVars, playbackTimers, triggerVars>>

\* Specification SpecDictation: capture by the voice button with results of
\* the recognizer, and one synthesis; conversation mode stays off.
DictationNext ==
  \/ StartListening
  \/ StopListening
  \/ RecognitionOnStart
  \/ RecognitionOnEnd
  \/ \E final \in BOOLEAN : RecognitionOnResult(final)
  \/ SilenceTimerFires
  \/ VoiceSendReturns
  \/ \E o \in orphans : OrphanOnStart(o)
  \/ \E o \in orphans : OrphanOnEnd(o)
  \/ Speak(1, TextA)
  \/ \E ok \in BOOLEAN : TtsFetchResolves(1, ok)
  \/ \E b \in AudioBytes \cup {0} : TtsBodyResolves(1, b)
  \/ \E ok \in BOOLEAN : DecodeResolves(1, ok)
  \/ SourceEnded(1)

SpecDictation == Init /\ [][DictationNext]_vars

\* The effect on [lastAiMessage, generateAndPlayTTS] has work to do: the page
\* passes lastAiResponse as lastAiMessage, and generateAndPlayTTS is a new
\* function in every render (voiceConfig defaults to a new object), so the
\* effect runs after every render and returns unless the message is new.
AiEffectDue ==
  lastAiResponse # <<>> /\ lastProcessedMessage # lastAiResponse

\* That effect: it records the message and sets a timer of 300 ms, which
\* holds the message and the generateAndPlayTTS of this render.
NewAiMessageEffect ==
  /\ AiEffectDue
  /\ Len(ttsTimers) < MaxTimers
  /\ lastProcessedMessage' = lastAiResponse
  /\ ttsTimers' = Append(ttsTimers, [text |-> lastAiResponse, muted |-> isMuted,
                                     restart |-> conversationMode /\ ~isListening])
  /\ UNCHANGED <<isListening, isMuted, isPlaying, isGeneratingTTS, conversationMode,
                 recognition, effListening, orphans, currentAudioSource, pendingTTS,
                 ttsCache, utterances, restartTimers, silenceTimer>>
  /\ UNCHANGED <<chatVars, auxVars, playbackTimers, dictVars, synthCalls>>

\* The latest call of sendMessage that was made (0: none)
LatestCall ==
  IF \A c \in CallIds : calls[c].pc = "idle" THEN 0
  ELSE CHOOSE c \in CallIds :
         calls[c].pc # "idle" /\ \A d \in CallIds : d > c => calls[d].pc = "idle"

\* The oldest of those timers fires: generateAndPlayTTS(text) if the message
\* is still the one recorded last; generateAndPlayTTS returns at its guard if
\* muted or if the text is blank or short.
TtsTimerFires(u) ==
  /\ ttsTimers # <<>>
  /\ ttsTimers' = Tail(ttsTimers)
  /\ UNCHANGED lastProcessedMessage
  /\ LET t == Head(ttsTimers)
     IN IF t.text = lastProcessedMessage /\ Speakable(t.text, t.muted)
          THEN /\ SpeakWith(u, t.text, t.muted, t.restart)
               /\ synthCalls' = Append(synthCalls,
                                       [call |-> LatestCall, text |-> t.text])
          ELSE /\ u = 1
               /\ UNCHANGED synthCalls
               /\ UNCHANGED <<isListening, isMuted, isPlaying, isGeneratingTTS,
                              conversationMode, recognition, effListening, orphans,
                              currentAudioSource, pendingTTS, ttsCache, utterances,
                              restartTimers, silenceTimer>>
               /\ UNCHANGED <<chatVars, auxVars, playbackTimers, dictVars>>

\* The fragments of the response to send c in specification SpecSpeak: partial
\* fragments of the coordinator, and a terminal fragment with one of the texts.
PartialText == SubSeq(TextA, 1, TtsMinLength)
SpeakPartial ==
  [author |-> COORD, invocation_id |-> "i1", partial |-> TRUE,
   text |-> PartialText, timestamp |-> 5]
SpeakTerminal(c, text) ==
  [author |-> COORD, invocation_id |-> "i1", partial |-> FALSE,
   text |-> text, timestamp |-> 5 * c]
SpeakChunks(c) ==
  {<<SpeakPartial>>}
  \cup {<<SpeakTerminal(c, text)>> : text \in TtsTexts}
  \cup {<<SpeakPartial, SpeakTerminal(c, text)>> : text \in TtsTexts}

\* Nothing of an earlier send is still under way: no call is open, the events
\* have been applied, the effect on the message has run and its timer fired.
SpeakSettled ==
  /\ \A c \in CallIds : calls[c].pc \in {"idle", "done"}
  /\ ~eventsDirty
  /\ ~AiEffectDue
  /\ ttsTimers = <<>>

\* Specification SpecSpeak: the page with the message input, audio unmuted.
\* The user sends from the text box, one message after the other has been
\* answered; each response is partial fragments and then one terminal
\* fragment of the coordinator.  The effect on the message runs with the
\* render that changed it, before any other step.
SpeakNext ==
  \/ ~AiEffectDue /\ \E ok \in BOOLEAN : InitializeSession(1, ok)
  \/ /\ ~AiEffectDue
     /\ \E s \in SessionIds, ok \in BOOLEAN : \E hist \in Histories(s) : LoadDone(s, ok, hist)
  \/ \E c \in CallIds : SpeakSettled /\ loadPending = {} /\ HandleSendMessage(c)
  \/ \E c \in CallIds : ~AiEffectDue /\ FetchResponds(c, TRUE)
  \/ \E c \in CallIds : \E frags \in SpeakChunks(c) :
       /\ ~AiEffectDue
       /\ calls[c].gen.kind \in {"none", "partials"}
       /\ ReadChunk(c, frags)
  \/ \E c \in CallIds : ~AiEffectDue /\ calls[c].gen.kind = "closed" /\ StreamEnds(c)
  \/ ~AiEffectDue /\ EffectSSE
  \/ NewAiMessageEffect
  \/ \E u \in UttIds : ~AiEffectDue /\ TtsTimerFires(u)
  \/ \E u \in UttIds, ok \in BOOLEAN : ~AiEffectDue /\ TtsFetchResolves(u, ok)
  \/ \E u \in UttIds, b \in AudioBytes \cup {0} : ~AiEffectDue /\ TtsBodyResolves(u, b)
  \/ \E u \in UttIds, ok \in BOOLEAN : ~AiEffectDue /\ DecodeResolves(u, ok)
  \/ \E u \in UttIds : ~AiEffectDue /\ SourceEnded(u)

SpecSpeak == Init /\ [][SpeakNext]_vars

\* A text of the minimum length that is blank
BlankText == [i \in 1..TtsMinLength |-> SP]

\* Specification SpecGuards: as SpecSpeak, and the user mutes and unmutes the
\* audio at any time; a response may also end with a blank text.
GuardsNext ==
  \/ SpeakNext
  \/ \E c \in CallIds :
       /\ ~AiEffectDue
       /\ calls[c].gen.kind \in {"none", "partials"}
       /\ ReadChunk(c, <<SpeakTerminal(c, BlankText)>>)
  \/ ~AiEffectDue /\ ToggleMute

SpecGuards == Init /\ [][GuardsNext]_vars

\* Specification SpecVoice: capture by the voice button, synthesis and playback
\* of up to MaxUtterances texts; conversation mode stays off.
VoiceNext ==
  \/ StartListening
  \/ StopListening
  \/ RecognitionOnStart
  \/ RecognitionOnEnd
  \/ \E o \in orphans : OrphanOnStart(o)
  \/ \E o \in orphans : OrphanOnEnd(o)
  \/ \E u \in UttIds, text \in TtsTexts : Speak(u, text)
  \/ \E u \in UttIds, ok \in BOOLEAN : TtsFetchResolves(u, ok)
  \/ \E u \in UttIds, b \in AudioBytes \cup {0} : TtsBodyResolves(u, b)
  \/ \E u \in UttIds, ok \in BOOLEAN : DecodeResolves(u, ok)
  \/ \E u \in UttIds : SourceEnded(u)
  \/ ClickStopAudio
  \/ ToggleMute

SpecVoice == Init /\ [][VoiceNext]_vars

\* Specification SpecConversation: conversation mode, with one synthesis.
ConversationNext ==
  \/ StartListening
  \/ StopListening
  \/ ToggleConversationMode
  \/ RestartTimerFires
  \/ PlaybackTimerFires
  \/ RecognitionOnStart
  \/ RecognitionOnEnd
  \/ \E o \in orphans : OrphanOnStart(o)
  \/ \E o \in orphans : OrphanOnEnd(o)
  \/ Speak(1, TextA)
  \/ \E ok \in BOOLEAN : TtsFetchResolves(1, ok)
  \/ \E b \in AudioBytes \cup {0} : TtsBodyResolves(1, b)
  \/ \E ok \in BOOLEAN : DecodeResolves(1, ok)
  \/ SourceEnded(1)
  \/ ClickStopAudio

SpecConversation == Init /\ [][ConversationNext]_vars

Chunks == UNION {[1..n -> Fragments] : n \in 1..MaxPerChunk}

\* The responses of the session-switching specification carry fragments of
\* one invocation of the coordinator only.
SwitchFragments ==
  [author : {COORD}, invocation_id : {"i1"}, partial : BOOLEAN,
   text : {<<1>>}, timestamp : {5}]
SwitchChunks == UNION {[1..n -> SwitchFragments] : n \in 1..MaxPerChunk}

\* Specification Spec: one session, selected on mount; the user sends once
\* it has loaded; the responses carry any fragments.
Next ==
  \/ \E ok \in BOOLEAN : InitializeSession(1, ok)
  \/ \E s \in SessionIds, ok \in BOOLEAN : \E hist \in Histories(s) : LoadDone(s, ok, hist)
  \/ \E c \in 1..MaxSends : loadPending = {} /\ HandleSendMessage(c)
  \/ \E c \in CallIds, ok \in BOOLEAN : FetchResponds(c, ok)
  \/ \E c \in CallIds, frags \in Chunks : ReadChunk(c, frags)
  \/ \E c \in CallIds : StreamEnds(c)
  \/ EffectSSE
  \/ \E d \in TickSteps : Tick(d)

Spec == Init /\ [][Next]_vars

\* Specification SpecSwitch: the user switches sessions and sends from the
\* text box and by voice while responses stream.
SwitchNext ==
  \/ \E ok \in BOOLEAN : InitializeSession(1, ok)
  \/ \E s \in SessionIds, ok \in BOOLEAN : \E hist \in Histories(s) : LoadDone(s, ok, hist)
  \/ \E s \in SessionIds : HandleNewSession(s)
  \/ \E s \in SessionIds : HandleSessionChange(s)
  \/ \E c \in CallIds : HandleSendMessage(c)
  \/ \E c \in CallIds, ok \in BOOLEAN : FetchResponds(c, ok)
  \/ \E c \in CallIds, frags \in SwitchChunks : ReadChunk(c, frags)
  \/ \E c \in CallIds : StreamEnds(c)
  \/ EffectSSE

SpecSwitch == Init /\ [][SwitchNext]_vars

\* Specification SpecPages: the second chat page.  Its mount effect is taken
\* on the path that ends in handleNewSession, so no history is loaded.
PagesNext ==
  \/ InitializeSession(1, FALSE)
  \/ \E c \in 1..MaxSends : HandleSendMessage(c)
  \/ \E c \in CallIds, ok \in BOOLEAN : FetchResponds(c, ok)
  \/ \E c \in CallIds, frags \in Chunks : ReadChunk(c, frags)
  \/ \E c \in CallIds : StreamEnds(c)
  \/ PagesEffectSSE

SpecPages == Init /\ [][PagesNext]_vars

\* Specification SpecSessions: the page is mounted and the user switches
\* sessions; the requests succeed or fail.
SessionsNext ==
  \/ \E s \in SessionIds, ok \in BOOLEAN : InitializeSession(s, ok)
  \/ \E s \in SessionIds : HandleNewSession(s)
  \/ \E s \in SessionIds : HandleSessionChange(s)
  \/ \E s \in SessionIds, ok \in BOOLEAN : \E hist \in Histories(s) : LoadReturns(s, ok, hist)
  \/ \E d \in TickSteps : Tick(d)

SpecSessions == Init /\ [][SessionsNext]_vars

\* Specification SpecTransport: the behaviours of Spec, with the fragments the
\* read loop parses and the events the effect reads recorded.
TransportNext ==
  \/ \E ok \in BOOLEAN : InitializeSession(1, ok)
  \/ \E s \in SessionIds, ok \in BOOLEAN : \E hist \in Histories(s) : LoadDone(s, ok, hist)
  \/ \E c \in 1..MaxSends : loadPending = {} /\ HandleSendMessage(c)
  \/ \E c \in CallIds, ok \in BOOLEAN : FetchResponds(c, ok)
  \/ \E c \in CallIds, frags \in Chunks : ReadChunkTracked(c, frags)
  \/ \E c \in CallIds : StreamEnds(c)
  \/ EffectTracked
  \/ \E d \in TickSteps : Tick(d)

SpecTransport == Init /\ [][TransportNext]_vars

(***************************************************************************)
(* The audio cache as a component: TTSCache of part_011 (ttsCache) and     *)
(* TTSCache of components/MessageInput.tsx (lruCache) under one sequence   *)
(* of set() and get() calls.  The two Maps of the second class, cache and  *)
(* accessTime, always hold the same keys in the same order and are kept as *)
(* one sequence of entries [key, bytes, time].                             *)
(***************************************************************************)
LruMaxSize == 50
LruHashPrefixLen == 100
MaxOverflow == 2
MaxProbes == 1

\* The k-th text handed to the cache: TtsMinLength characters, the first
\* of which tells the texts apart.
CacheText(k) == [i \in 1..TtsMinLength |-> IF i = 1 THEN 64 + k ELSE 97]

\* TTSCache.hashText of MessageInput.tsx
LruHashText(text) ==
  SelectSeq(Base64Digits(Substring(text, LruHashPrefixLen)), IsAlphaNum)

RemoveAt(s, i) == SubSeq(s, 1, i - 1) \o SubSeq(s, i + 1, Len(s))

\* The loop of evictLRU: the first entry, in Map order, of the least access
\* time, provided that time is before Date.now(); 0 if there is none
\* (oldestKey stays '').
LruOldest(cache, clock) ==
  LET older == {i \in DOMAIN cache : cache[i].time < clock}
  IN IF older = {} THEN 0
     ELSE CHOOSE i \in older :
            \A j \in older : cache[i].time < cache[j].time
                             \/ (cache[i].time = cache[j].time /\ i <= j)

\* TTSCache.evictLRU
EvictLRU(cache, clock) ==
  IF LruOldest(cache, clock) = 0 THEN cache
  ELSE RemoveAt(cache, LruOldest(cache, clock))

\* TTSCache.set of MessageInput.tsx
LruSet(cache, text, bytes, clock) ==
  LET kept == IF Len(cache) >= LruMaxSize THEN EvictLRU(cache, clock) ELSE cache
      key == LruHashText(text)
      entry == [key |-> key, bytes |-> bytes, time |-> clock]
  IN IF \E i \in DOMAIN kept : kept[i].key = key
       THEN [i \in DOMAIN kept |-> IF kept[i].key = key THEN entry ELSE kept[i]]
     ELSE Append(kept, entry)

\* TTSCache.get of MessageInput.tsx: the cache after the call (a hit records
\* the access time).
LruGet(cache, text, clock) ==
  [i \in DOMAIN cache |->
     IF cache[i].key = LruHashText(text) THEN [cache[i] EXCEPT !.time = clock]
     ELSE cache[i]]

\* set(text, bytes) on both caches.  The text is one that was set before
\* (one of the first MaxProbes texts, with any bytes) or the next new text.
CachePut(k, b) ==
  /\ k \in 1..Min(nTexts, MaxProbes) \cup {nTexts + 1}
  /\ k = nTexts + 1 => b = 1
  /\ k <= LruMaxSize + MaxOverflow
  /\ nTexts' = IF k = nTexts + 1 THEN k ELSE nTexts
  /\ ttsCache' = CacheSet(ttsCache, CacheText(k), b)
  /\ lruCache' = LruSet(lruCache, CacheText(k), b, now)
  /\ UNCHANGED <<isListening, isMuted, isPlaying, isGeneratingTTS, conversationMode,
                 recognition, effListening, orphans, currentAudioSource, pendingTTS,
                 utterances, restartTimers, silenceTimer, speechVars>>
  /\ UNCHANGED <<chatVars, parserVars, blockVars, moreVars>>

\* get(text) on both caches; the get of part_011 changes nothing.
CacheLookup(k) ==
  /\ k \in 1..Min(nTexts, MaxProbes)
  /\ lruCache' = LruGet(lruCache, CacheText(k), now)
  /\ UNCHANGED <<nTexts, voiceVars, chatVars, parserVars, blockVars, moreVars>>

\* Specification SpecCache: set() and get() calls as time passes.
CacheNext ==
  \/ \E k \in 1..(LruMaxSize + MaxOverflow), b \in AudioBytes : CachePut(k, b)
  \/ \E k \in 1..MaxProbes : CacheLookup(k)
  \/ \E d \in TickSteps : Tick(d)

SpecCache == Init /\ [][CacheNext]_vars

(***************************************************************************)
(* What the caches serve: set() and get() of both TTSCache classes on      *)
(* texts that share their first characters.                                *)
(***************************************************************************)
MaxStores == 2

\* Texts that agree on their first n characters and differ in the next one.
PrefixedText(n, k) == [i \in 1..(n + 1) |-> IF i <= n THEN 97 ELSE 64 + k]

\* "How are you" and one more character c.
MarkText(c) == <<72, 111, 119, 32, 97, 114, 101, 32, 121, 111, 117, c>>

\* The texts handed to the caches: two that agree on HashPrefixLen
\* characters, two that agree on LruHashPrefixLen characters, two that end
\* in '>' and '?', and two that differ early.
ServeTexts ==
  {PrefixedText(HashPrefixLen, k) : k \in 1..2}
  \cup {PrefixedText(LruHashPrefixLen, k) : k \in 1..2}
  \cup {MarkText(62), MarkText(63)}
  \cup TtsTexts

\* What TTSCache.get of MessageInput.tsx returns: the stored bytes, or 0 for
\* null.
LruLookup(cache, text) ==
  IF \E i \in DOMAIN cache : cache[i].key = LruHashText(text)
    THEN cache[CHOOSE i \in DOMAIN cache : cache[i].key = LruHashText(text)].bytes
  ELSE 0

\* set(text, bytes) on both caches
ServeSet(t, b) ==
  /\ nStores < MaxStores
  /\ nStores' = nStores + 1
  /\ ttsCache' = CacheSet(ttsCache, t, b)
  /\ lruCache' = LruSet(lruCache, t, b, now)
  /\ stored' = stored \cup {[text |-> t, bytes |-> b]}
  /\ UNCHANGED <<served, nTexts>>
  /\ UNCHANGED <<isListening, isMuted, isPlaying, isGeneratingTTS, conversationMode,
                 recognition, effListening, orphans, currentAudioSource, pendingTTS,
                 utterances, restartTimers, silenceTimer, speechVars>>
  /\ UNCHANGED <<chatVars, parserVars, blockVars, extractVars, loadFailed, trackVars,
                 socketVars>>

\* get(text) on both caches
ServeGet(t) ==
  /\ served' = [text |-> t, tts |-> CacheGet(ttsCache, t),
                lru |-> LruLookup(lruCache, t)]
  /\ lruCache' = LruGet(lruCache, t, now)
  /\ UNCHANGED <<stored, nStores, nTexts>>
  /\ UNCHANGED <<chatVars, voiceVars, parserVars, blockVars, extractVars, loadFailed,
                 trackVars, socketVars>>

ServeNext ==
  \/ \E t \in ServeTexts, b \in AudioBytes : ServeSet(t, b)
  \/ \E t \in ServeTexts : ServeGet(t)

SpecServe == Init /\ [][ServeNext]_vars

(***************************************************************************)
(* useWebSocket of hooks/useWebsocket.ts: one url, the socket that         *)
(* connect() makes, its open, message and close events and the reconnect   *)
(* timer.                                                                  *)
(***************************************************************************)
maxReconnectAttempts == 5
MaxReconnects == 7
MaxMessages == 2

SocketFrame ==
  UNCHANGED <<chatVars, voiceVars, cacheVars, parserVars, blockVars, extractVars,
              loadFailed, trackVars, serveVars>>

\* The effect on [url] at mount: connect(), the callback of the first
\* render, which closed over reconnectAttempts of that render.
WsMount ==
  /\ SocketFrame
  /\ wsState = "none"
  /\ ~wsMounted
  /\ wsMounted' = TRUE
  /\ wsState' = "connecting"
  /\ connectAttempts' = reconnectAttempts
  /\ UNCHANGED <<isConnected, reconnectAttempts, reconnectTimer, reconnectOpt,
                 nMessages, sinceOpen>>

\* The cleanup of that effect: the pending timer is cleared; socket, as the
\* first render holds it, is null, so nothing is closed.
WsUnmount ==
  /\ SocketFrame
  /\ wsMounted
  /\ wsMounted' = FALSE
  /\ reconnectTimer' = FALSE
  /\ UNCHANGED <<wsState, isConnected, reconnectAttempts, connectAttempts,
                 reconnectOpt, nMessages, sinceOpen>>

\* ws.onopen
WsOpen ==
  /\ SocketFrame
  /\ wsState = "connecting"
  /\ wsState' = "open"
  /\ isConnected' = TRUE
  /\ reconnectAttempts' = 0
  /\ sinceOpen' = 0
  /\ UNCHANGED <<connectAttempts, reconnectTimer, reconnectOpt, nMessages, wsMounted>>

\* ws.onmessage with a message that parses
WsMessage ==
  /\ SocketFrame
  /\ wsState = "open"
  /\ nMessages < MaxMessages
  /\ nMessages' = nMessages + 1
  /\ UNCHANGED <<wsState, isConnected, reconnectAttempts, connectAttempts,
                 reconnectTimer, reconnectOpt, wsMounted, sinceOpen>>

\* ws.onclose: the connection failed, was lost, or disconnect() closed it.
\* The test reads reconnectAttempts of the closure of connect.
WsClose ==
  /\ SocketFrame
  /\ wsState \in {"connecting", "open"}
  /\ wsState' = "closed"
  /\ isConnected' = FALSE
  /\ reconnectTimer' = (reconnectOpt /\ connectAttempts < maxReconnectAttempts)
  /\ UNCHANGED <<reconnectAttempts, connectAttempts, reconnectOpt, nMessages,
                 wsMounted, sinceOpen>>

\* The timer of onclose fires: setReconnectAttempts(prev => prev + 1), then
\* connect(), the callback that set the timer.
WsTimerFires ==
  /\ SocketFrame
  /\ reconnectTimer
  /\ sinceOpen < MaxReconnects
  /\ reconnectTimer' = FALSE
  /\ reconnectAttempts' = reconnectAttempts + 1
  /\ sinceOpen' = sinceOpen + 1
  /\ wsState' = "connecting"
  /\ UNCHANGED <<isConnected, connectAttempts, reconnectOpt, nMessages, wsMounted>>

SocketNext ==
  \/ WsMount
  \/ WsUnmount
  \/ WsOpen
  \/ WsMessage
  \/ WsClose
  \/ WsTimerFires

SpecSocketInit ==
  /\ ChatInit /\ VoiceInit /\ CacheInit /\ ParserInit /\ wire = <<>> /\ BlocksInit
  /\ ExtractInit /\ latestEvent = NoLatestEvent /\ loadFailed = {} /\ TrackInit
  /\ ServeInit /\ SocketIdle /\ reconnectOpt \in BOOLEAN

SpecSocket == SpecSocketInit /\ [][SocketNext]_vars

(***************************************************************************)
(* The read loop of useSSE.sendMessage on the characters of the response.  *)
(* The body is ASCII, so a character is a byte and the streaming           *)
(* TextDecoder hands over exactly the characters of each chunk.  The       *)
(* payloads are JSON numbers: such a value has no invocation_id, so the    *)
(* loop pushes it on finalEvents and publishes a copy of finalEvents.      *)
(***************************************************************************)
DataPrefix == <<100, 97, 116, 97, 58, SP>>
Digits == {49, 50}
JsonError == -1
MaxLines == 2

\* String.prototype.split('\n')
RECURSIVE Split(_)
Split(s) ==
  IF \A i \in DOMAIN s : s[i] # LF THEN <<s>>
  ELSE LET i == CHOOSE j \in DOMAIN s : s[j] = LF /\ \A k \in 1..(j - 1) : s[k] # LF
       IN <<SubSeq(s, 1, i - 1)>> \o Split(SubSeq(s, i + 1, Len(s)))

StartsWith(s, prefix) ==
  Len(s) >= Len(prefix) /\ SubSeq(s, 1, Len(prefix)) = prefix

\* String.prototype.slice(n)
Slice(s, n) == SubSeq(s, n + 1, Len(s))

RECURSIVE DigitsValue(_)
DigitsValue(s) ==
  IF s = <<>> THEN 0 ELSE 10 * DigitsValue(SubSeq(s, 1, Len(s) - 1)) + (s[Len(s)] - 48)

\* JSON.parse on the texts of the model: white space around a number is
\* allowed, anything else throws (JsonError).
JsonParse(s) ==
  IF Trim(s) # <<>> /\ \A i \in DOMAIN Trim(s) : Trim(s)[i] \in Digits
    THEN DigitsValue(Trim(s))
  ELSE JsonError

\* The body of the for loop for one line: st holds finalEvents, the events
\* last published and the history of parsed values.
HandleLine(st, rawLine) ==
  LET line == Trim(rawLine)
      data == JsonParse(Slice(line, Len(DataPrefix)))
  IN IF ~StartsWith(line, DataPrefix) \/ data = JsonError THEN st
     ELSE [st EXCEPT !.finalEvents = Append(@, data),
                     !.published = Append(st.finalEvents, data),
                     !.parsed = Append(@, data)]

\* line is a data line whose text JSON.parse rejects.
Malformed(rawLine) ==
  /\ StartsWith(Trim(rawLine), DataPrefix)
  /\ JsonParse(Slice(Trim(rawLine), Len(DataPrefix))) = JsonError

\* The for loop: every line but the last.
RECURSIVE HandleLines_Fatal(_, _)
RECURSIVE HandleLines(_, _)
HandleLines_Fatal(st, lines) ==
  IF Len(lines) <= 1 \/ Malformed(Head(lines)) THEN st
  ELSE HandleLines_Fatal(HandleLine(st, Head(lines)), Tail(lines))
HandleLines(st, lines) ==
  IF Len(lines) <= 1 THEN st
  ELSE HandleLines(HandleLine(st, Head(lines)), Tail(lines))

\* What the loop keeps in buffer: the last line.
KeptBuffer_Dropped(lines) == <<>>
KeptBuffer(lines) == lines[Len(lines)]

\* One pass of the while loop on a chunk: its effect on the locals.
LoopPass(st, buf, chunk) ==
  LET lines == Split(buf \o chunk)
  IN [st |-> HandleLines(st, lines), buffer |-> KeptBuffer(lines)]

ParserLocals ==
  [finalEvents |-> lineEvents, published |-> published, parsed |-> parsed]

\* reader.read() hands over the next n characters.
ParserRead(n) ==
  /\ ~readerDone
  /\ n \in 1..(Len(wire) - wirePos)
  /\ LET pass == LoopPass(ParserLocals, buffer, SubSeq(wire, wirePos + 1, wirePos + n))
     IN /\ buffer' = pass.buffer
        /\ lineEvents' = pass.st.finalEvents
        /\ published' = pass.st.published
        /\ parsed' = pass.st.parsed
        /\ cutInside' = (cutInside \/ (pass.buffer # <<>> /\ wirePos + n < Len(wire)))
  /\ wirePos' = wirePos + n
  /\ UNCHANGED <<wire, readerDone>>
  /\ UNCHANGED <<chatVars, voiceVars, cacheVars, blockVars, moreVars>>

\* reader.read() returns done: the loop ends; what is in buffer is not parsed.
ParserDone ==
  /\ ~readerDone
  /\ wirePos = Len(wire)
  /\ readerDone' = TRUE
  /\ UNCHANGED <<wire, wirePos, buffer, lineEvents, published, parsed, cutInside>>
  /\ UNCHANGED <<chatVars, voiceVars, cacheVars, blockVars, moreVars>>

\* The lines of the responses of the model: data lines with a number, with
\* white space around it, with a text that is not JSON; a line with another
\* field; an empty line.
Str(n) == IF n = 1 THEN <<49>> ELSE IF n = 12 THEN <<49, 50>> ELSE <<50>>
LineTexts ==
  { DataPrefix \o Str(1),
    DataPrefix \o Str(12),
    <<SP>> \o DataPrefix \o <<SP>> \o Str(2) \o <<SP>>,
    DataPrefix \o <<120>>,
    <<105, 100, 58, SP>> \o Str(1),
    <<>> }
LineEnds == {<<LF>>, <<CR, LF>>}
TerminatedLines == {t \o e : t \in LineTexts, e \in LineEnds}

RECURSIVE Concat(_)
Concat(ss) == IF ss = <<>> THEN <<>> ELSE Head(ss) \o Concat(Tail(ss))

\* A response: up to MaxLines terminated lines, then possibly characters
\* without a line end.
Wires ==
  {Concat(ls) \o rest :
     ls \in UNION {[1..n -> TerminatedLines] : n \in 1..MaxLines},
     rest \in {<<>>, DataPrefix \o Str(1), <<100, 97>>}}

ParserNext ==
  \/ \E n \in 1..(Len(wire) - wirePos) : ParserRead(n)
  \/ ParserDone

\* Specification SpecParser: one response, read in chunks of any sizes.
SpecParserInit ==
  /\ ChatInit /\ VoiceInit /\ CacheInit /\ BlocksInit /\ ParserInit /\ wire \in Wires
  /\ MoreInit

SpecParser == SpecParserInit /\ [][ParserNext]_vars

(***************************************************************************)
(* The extraction step of the SSE effect of the page, on one event as the  *)
(* transport hands it over.  An event keeps content.parts (a part is a     *)
(* text part, or a part of another kind, which has no text field), the     *)
(* lengths of actions.function_calls and function_responses, author and    *)
(* partial.                                                                *)
(***************************************************************************)
MaxParts == 2
PartKinds ==
  { [kind |-> "text", text |-> <<72>>],
    [kind |-> "text", text |-> <<>>],
    [kind |-> "function_call", text |-> <<>>] }
PartsOf == UNION {[1..n -> PartKinds] : n \in 0..MaxParts}
LatestEvents ==
  [author : {COORD, "agentX"}, parts : PartsOf, function_calls : 0..1,
   function_responses : 0..1, partial : BOOLEAN]

\* latestEvent.content?.parts?.[0]?.text (undefined reads as '')
FirstPartText(ev) ==
  IF ev.parts = <<>> \/ ev.parts[1].kind # "text" THEN <<>> ELSE ev.parts[1].text

\* The effect up to `if (!text) return`
ExtractStep ==
  /\ extracted = "pending"
  /\ extracted' = IF FirstPartText(latestEvent) = <<>> THEN "discarded" ELSE "extracted"
  /\ UNCHANGED <<latestEvent, loadFailed, trackVars, laterVars, chatVars, voiceVars, cacheVars, parserVars,
                 blockVars>>

\* Specification SpecExtract: the effect is run with any one event.
SpecExtractInit ==
  /\ ChatInit /\ VoiceInit /\ CacheInit /\ ParserInit /\ wire = <<>> /\ BlocksInit
  /\ ExtractInit /\ latestEvent \in LatestEvents /\ loadFailed = {} /\ TrackInit
  /\ LaterInit

SpecExtract == SpecExtractInit /\ [][ExtractStep]_vars

(***************************************************************************)
(* EventsTab: grouping of the transcript into conversation blocks.  An     *)
(* entry keeps the fields the grouping reads: author, content.role, text,  *)
(* timestamp, and rich (it carries function calls, function responses or   *)
(* an image part); id is its position in the transcript.                   *)
(***************************************************************************)
MaxEntries == 4
AUX1 == "agentX"
AUX2 == "agentY"
NoEntry == [id |-> 0, author |-> "", role |-> "", text |-> <<>>, rich |-> FALSE,
            timestamp |-> 0]

\* The entries that reach the tab: a user message with text and one without
\* (handleSendMessage of an image-only message stores text '' and no content),
\* a loaded event of role user, a coordinator reply, entries of two other
\* agents, and an agent entry that carries function calls only.
EntryKinds ==
  { [author |-> USER, role |-> "", text |-> <<72>>, rich |-> FALSE],
    [author |-> USER, role |-> "", text |-> <<>>, rich |-> FALSE],
    [author |-> "", role |-> USER, text |-> <<72>>, rich |-> FALSE],
    [author |-> COORD, role |-> "", text |-> <<72>>, rich |-> FALSE],
    [author |-> AUX1, role |-> "", text |-> <<72>>, rich |-> FALSE],
    [author |-> AUX2, role |-> "", text |-> <<72>>, rich |-> FALSE],
    [author |-> AUX1, role |-> "", text |-> <<>>, rich |-> TRUE] }

\* hasValidContent
HasValidContent(event) == Trim(event.text) # <<>> \/ event.rich

\* events.filter(hasValidContent)
ValidEvents(evs) == SelectSeq(evs, HasValidContent)

IsUser(event) == event.author = USER \/ event.role = USER
IsCoordinator(event) == event.author = COORD

\* The callback of validEvents.forEach; currentBlock is the block pushed last.
GroupStep(blocks, event) ==
  IF IsUser(event)
    THEN Append(blocks,
           [userMessage |-> event, coordinatorMessage |-> NoEntry,
            lastAgentMessage |-> NoEntry, agentActivity |-> [a \in {} |-> <<>>],
            timestamp |-> IF event.timestamp # 0 THEN event.timestamp ELSE now])
  ELSE IF blocks = <<>> THEN blocks
  ELSE IF IsCoordinator(event)
    THEN [blocks EXCEPT ![Len(blocks)].coordinatorMessage = event]
  ELSE LET act == blocks[Len(blocks)].agentActivity
       IN [blocks EXCEPT
             ![Len(blocks)].agentActivity =
                [a \in DOMAIN act \cup {event.author} |->
                   IF a = event.author
                     THEN Append(IF a \in DOMAIN act THEN act[a] ELSE <<>>, event)
                   ELSE act[a]],
             ![Len(blocks)].lastAgentMessage = event]

RECURSIVE GroupFrom(_, _)
GroupFrom(blocks, evs) ==
  IF evs = <<>> THEN blocks ELSE GroupFrom(GroupStep(blocks, Head(evs)), Tail(evs))

\* The conversationBlocks of a render with the events evs
GroupBlocks(evs) == GroupFrom(<<>>, ValidEvents(evs))

\* The JSX of a block: the coordinator response is rendered under
\* block.coordinatorMessage, and the LastAgentMessage element is written
\* inside that response, under !block.coordinatorMessage && block.lastAgentMessage.
ShowsCoordinatorResponse(block) == block.coordinatorMessage # NoEntry
ShowsLastAgentMessage(block) ==
  /\ ShowsCoordinatorResponse(block)
  /\ block.coordinatorMessage = NoEntry /\ block.lastAgentMessage # NoEntry

\* The page appends an entry to its transcript and EventsTab renders.
TabReceives(kind) ==
  /\ Len(tabEvents) < MaxEntries
  /\ tabEvents' = Append(tabEvents,
       [id |-> Len(tabEvents) + 1, author |-> kind.author, role |-> kind.role,
        text |-> kind.text, rich |-> kind.rich, timestamp |-> now])
  /\ conversationBlocks' = GroupBlocks(tabEvents')
  /\ UNCHANGED <<chatVars, voiceVars, cacheVars, parserVars, moreVars>>

BlocksNext == \E kind \in EntryKinds : TabReceives(kind)

\* Specification SpecBlocks: transcripts of up to MaxEntries entries.
SpecBlocks == Init /\ [][BlocksNext]_vars

(***************************************************************************)
(* Claims                                                                  *)
(***************************************************************************)
EffectStep == eventsDirty /\ ~eventsDirty'
AgentEntries == {i \in DOMAIN sessionEvents : sessionEvents[i].call # 0}

\* C1 (streaming convergence): when the only send made so far, begun on a
\* transcript with no agent entry, has closed its stream, the stream was a run
\* of partial
\* fragments of one author and one invocation id followed by a terminal
\* fragment with non-empty text X, and the effect has run, then the transcript
\* holds exactly one entry from that stream, finalized, with text exactly X.
C1_Case(c) ==
  /\ calls[c].pc = "done" /\ ~eventsDirty
  /\ calls[c].fresh
  /\ \A d \in CallIds \ {c} : calls[d].pc = "idle"
  /\ calls[c].gen.kind = "closed" /\ calls[c].gen.text # <<>>
C2_Replay ==
  /\ EffectStep /\ Len(events) > 0
  /\ IsFinal(events[Len(events)])
  /\ Real(events[Len(events)]) = lastApplied
  /\ sessionEvents = afterLast
C2_IdempotentMerge == [][C2_Replay => sessionEvents' = sessionEvents]_vars

\* C2, for terminal fragments that carry a producer timestamp only.
C2_IdempotentStamped ==
  [][(C2_Replay /\ events[Len(events)].timestamp # 0)
       => sessionEvents' = sessionEvents]_vars

\* C3 (duplicate suppression): no two finalized entries made by the reconciler
\* have the same author, the same text and timestamps less than 2 s apart.
C3_NoDuplicateFinalized ==
  \A i, j \in AgentEntries :
    (i < j /\ ~sessionEvents[i].isStreaming /\ ~sessionEvents[j].isStreaming
       /\ sessionEvents[i].author = sessionEvents[j].author
       /\ sessionEvents[i].text = sessionEvents[j].text)
    => Abs(sessionEvents[i].timestamp - sessionEvents[j].timestamp)
         >= DupWindowSec * MsPerSec

\* C4 (frame): a run of the effect removes no entry and changes no entry but
\* the last one, and that one only if it is streaming; and the transcript
\* gets shorter only in a step of a session switch.
C4_Frame ==
  [][/\ EffectStep =>
          /\ Len(sessionEvents') >= Len(sessionEvents)
          /\ \A i \in DOMAIN sessionEvents :
               (i < Len(sessionEvents) \/ ~sessionEvents[i].isStreaming)
                 => sessionEvents'[i] = sessionEvents[i]
     /\ Len(sessionEvents') < Len(sessionEvents) =>
          (currentSession' # currentSession \/ loadPending' # loadPending)]_vars

\* C5 (order): every run of the effect on a fragment takes a fragment parsed
\* later than the one the previous run took.
C5_AppliedInParseOrder ==
  [][(EffectStep /\ Len(events) > 0) => lastSeq' > lastSeq]_vars
C5_Witness == lastSeq = 3 /\ Cardinality(AgentEntries) >= 2 /\ ~eventsDirty

\* C6 (session switch cancels the stream): every entry the reconciler made
\* comes from a call of the current session.
C6_NoOldStreamInNewSession ==
  \A i \in AgentEntries : sessionEvents[i].sess = currentSession

\* C7 (mutual exclusion of capture and playback): in every state the flags
\* isListening and isPlaying are not both true, and no recognition object is
\* capturing while an audio source is playing.
Capturing == recognition = "active" \/ \E o \in orphans : o.st = "active"
Sounding == \E u \in UttIds : utterances[u].pc = "playing"
C7_MutualExclusion ==
  /\ ~(isListening /\ isPlaying)
  /\ ~(Capturing /\ Sounding)

\* C8 (one utterance at a time): at most one audio source has been started
\* and has neither ended nor been stopped, and no synthesis request is in
\* flight while the source of an earlier utterance is playing.
InFlight(u) == utterances[u].pc \in {"fetching", "body"} /\ ~utterances[u].aborted
C8_OneUtteranceActive ==
  /\ Cardinality({u \in UttIds : utterances[u].pc = "playing"}) <= 1
  /\ \A u, v \in UttIds :
       u < v => ~(utterances[u].pc = "playing" /\ InFlight(v))

\* C9 (cancellation safety): the step in which a synthesis call whose
\* controller was aborted leaves its fetch or its body read does not change
\* the cache.
C9_AbortedCallLeavesCache ==
  [][\A u \in UttIds :
       (/\ utterances[u].aborted
        /\ utterances[u].pc \in {"fetching", "body"}
        /\ utterances'[u].pc # utterances[u].pc)
       => ttsCache' = ttsCache]_vars

\* C10 (a cache hit short-circuits the network): when a call has completed
\* (it played fetched or cached audio) and the next call has the same text,
\* the next call hits the cache, sends no request and plays bytes that an
\* earlier call with that text has stored; the two calls sent one request, or
\* none if the first one hit too.
Completed(u) == utterances[u].outcome \in {"hit", "fetched"}
NetworkRequests(S) == Cardinality({u \in S : utterances[u].requested})
C10_CacheHitShortCircuits ==
  \A u, v \in UttIds :
    (/\ v = u + 1
     /\ Completed(u)
     /\ utterances[v].pc # "idle"
     /\ utterances[v].text = utterances[u].text)
    => /\ utterances[v].hit /\ ~utterances[v].requested
       /\ \E w \in UttIds : /\ w < v /\ utterances[w].requested
                             /\ utterances[w].text = utterances[v].text
                             /\ utterances[w].bytes = utterances[v].bytes
       /\ NetworkRequests({u, v}) = IF utterances[u].hit THEN 0 ELSE 1
C10_Witness ==
  /\ utterances[1].outcome = "fetched" /\ utterances[1].requested
  /\ utterances[2].outcome = "hit" /\ utterances[2].text = utterances[1].text
  /\ utterances[2].pc = "playing" /\ utterances[2].bytes = 2

\* C11: the audio cache never holds more than maxSize entries, whatever the
\* sequence of set() and get() calls and whatever the clock reads at each call:
\* at most 20 entries in the cache of part_011 and at most 50 in the cache of
\* MessageInput.tsx.
C11_CacheBounded ==
  /\ Len(ttsCache) <= TtsCacheMaxSize
  /\ Len(lruCache) <= LruMaxSize

\* C11, the cache of part_011 alone: at most maxSize entries, and a set()
\* that finds the cache full drops the entry that was inserted first.
C11_OldestInsertedBounded ==
  [][/\ Len(ttsCache') <= TtsCacheMaxSize
     /\ (Len(ttsCache) = TtsCacheMaxSize /\ ttsCache' # ttsCache)
          => \A i \in DOMAIN ttsCache' : ttsCache'[i].key # ttsCache[1].key
                                          \/ i = Len(ttsCache')]_vars

\* What the loop has done when the characters w arrive in one chunk.
OneChunk(w) ==
  LoopPass([finalEvents |-> <<>>, published |-> <<>>, parsed |-> <<>>], <<>>, w)

\* C12: whatever the split of the response into read chunks, the values
\* parsed so far, the events published and the retained partial line are
\* those of the same characters arriving in one chunk: every line is parsed
\* once, whole, also when a chunk boundary falls inside it.
C12_ChunkBoundaryIndependence ==
  LET one == OneChunk(SubSeq(wire, 1, wirePos))
  IN /\ parsed = one.st.parsed
     /\ lineEvents = one.st.finalEvents
     /\ published = one.st.published
     /\ buffer = one.buffer

\* A response with two data lines has been read to its end in chunks of which
\* one ended inside a line.
C12_Witness ==
  /\ readerDone
  /\ cutInside
  /\ Len(parsed) = 2
  /\ parsed = OneChunk(wire).st.parsed
  /\ wire = DataPrefix \o Str(12) \o <<CR, LF>> \o DataPrefix \o Str(1) \o <<LF>>

\* A call of sendMessage is active: its request is issued and its stream has
\* neither closed nor failed.
ActiveCall(c) == calls[c].pc \in {"fetching", "reading"}

\* C13: while some call of sendMessage is active, isLoading is true.
C13_LoadingWhileActive ==
  (\E c \in CallIds : ActiveCall(c)) => isLoading

\* C13, second half: once no call is active any more, isLoading is false.
C13_IdleNotLoading ==
  (\A c \in CallIds : ~ActiveCall(c)) => ~isLoading

\* The step in which the POST of call c returns a non-2xx status (or the
\* fetch rejects): from its await of fetch the call goes to its end.
PostFails(c) == calls[c].pc = "fetching" /\ calls'[c].pc = "done"

\* C14: when the POST returns a non-2xx status, the caller of sendMessage
\* observes the failure (handleSendMessage reaches its catch block), and the
\* transport is left with no state of the call: not loading, no events, no
\* accumulated text.
C14_FailureSurfaced ==
  [][\A c \in CallIds :
       PostFails(c) => /\ calls'[c].caller = "failed"
                       /\ ~isLoading'
                       /\ events' = <<>>
                       /\ calls'[c].finalEvents = <<>>
                       /\ \A i \in DOMAIN streamingMessages' :
                            streamingMessages'[i] = <<>>]_vars

\* C14 without the caller: the call ends, and the transport holds no state of it.
C14_FailureLeavesNoState ==
  [][\A c \in CallIds :
       PostFails(c) => /\ ~isLoading'
                       /\ events' = <<>>
                       /\ calls'[c].finalEvents = <<>>
                       /\ \A i \in DOMAIN streamingMessages' :
                            streamingMessages'[i] = <<>>]_vars

\* The values of the well-formed data lines among lines, in order.
RECURSIVE ValuesOf(_)
ValuesOf(lines) ==
  IF lines = <<>> THEN <<>>
  ELSE (IF StartsWith(Trim(Head(lines)), DataPrefix) /\ ~Malformed(Head(lines))
          THEN <<JsonParse(Slice(Trim(Head(lines)), Len(DataPrefix)))>>
        ELSE <<>>)
       \o ValuesOf(Tail(lines))

\* The lines of the response that have been read with their line end.
CompleteLines ==
  LET lines == Split(SubSeq(wire, 1, wirePos))
  IN SubSeq(lines, 1, Len(lines) - 1)

\* C15: a data line that fails to parse is skipped and the stream goes on:
\* the values parsed are those of all well-formed data lines read so far, the
\* ones after a malformed line included, and each has been published.
C15_MalformedLineSkipped ==
  /\ parsed = ValuesOf(CompleteLines)
  /\ published = parsed

\* A response whose first line is malformed and whose second line is well
\* formed has been read to its end, and the second line's value was parsed
\* and published.
C15_Witness ==
  /\ readerDone
  /\ wire = DataPrefix \o <<120>> \o <<LF>> \o DataPrefix \o Str(1) \o <<LF>>
  /\ Malformed(CompleteLines[1])
  /\ parsed = <<1>>
  /\ published = <<1>>

\* The positions in evs of the user entries, and the position of the k-th.
UserPositions(evs) == {i \in DOMAIN evs : IsUser(evs[i])}
UserPosition(evs, k) ==
  CHOOSE i \in UserPositions(evs) :
    Cardinality({j \in UserPositions(evs) : j <= i}) = k

\* The entries of evs between the k-th user entry and the next one.
Span(evs, k) ==
  SubSeq(evs, UserPosition(evs, k) + 1,
         IF k < Cardinality(UserPositions(evs))
           THEN UserPosition(evs, k + 1) - 1 ELSE Len(evs))

\* The entries of s whose author is the auxiliary agent a.
OfAuthor(s, a) ==
  LET Is(e) == e.author = a /\ ~IsUser(e) /\ ~IsCoordinator(e) IN SelectSeq(s, Is)

\* blocks is the grouping of evs that the claim describes: one block per
\* user entry, in order; in each, agentActivity[a] holds exactly the entries
\* of auxiliary author a of the block's span, in order, and coordinatorMessage
\* is set exactly when the span holds a coordinator entry.
GroupedBy(blocks, evs) ==
  /\ Len(blocks) = Cardinality(UserPositions(evs))
  /\ \A k \in DOMAIN blocks :
       /\ blocks[k].userMessage = evs[UserPosition(evs, k)]
       /\ \A a \in {AUX1, AUX2, ""} :
            IF OfAuthor(Span(evs, k), a) = <<>>
              THEN a \notin DOMAIN blocks[k].agentActivity
            ELSE /\ a \in DOMAIN blocks[k].agentActivity
                 /\ blocks[k].agentActivity[a] = OfAuthor(Span(evs, k), a)
       /\ DOMAIN blocks[k].agentActivity \subseteq {AUX1, AUX2, ""}
       /\ (blocks[k].coordinatorMessage # NoEntry)
            <=> \E i \in DOMAIN Span(evs, k) : /\ IsCoordinator(Span(evs, k)[i])
                                               /\ ~IsUser(Span(evs, k)[i])

\* C16: the blocks of a render are the grouping of the transcript: every
\* user entry opens a block that collects the entries up to the next user
\* entry.
C16_BlocksGroupTranscript == GroupedBy(conversationBlocks, tabEvents)

\* C16, for the entries with content only: the blocks are the grouping of
\* the entries that pass hasValidContent.
C16_BlocksGroupValidEvents == GroupedBy(conversationBlocks, ValidEvents(tabEvents))

\* A timer of source.onended fires and starts the recognition object.
PlaybackRestart ==
  /\ playbackTimers' = playbackTimers - 1
  /\ recognition = "idle"

\* C17: when the timer set at the end of a playback fires and restarts the
\* capture, conversation mode is enabled and the capture is not active.
C17_RestartOnlyInConversationMode ==
  [][PlaybackRestart => conversationMode /\ ~isListening]_vars

\* C18: a step that dispatches a final transcript as a user message leaves
\* the capture stopped and the displayed transcript cleared.
C18_DispatchStopsCapture ==
  [][dispatched' # dispatched =>
       /\ recognition' \notin {"starting", "active"}
       /\ transcript' = <<>>]_vars

\* C18: no final transcript is dispatched twice.
C18_DispatchedAtMostOnce ==
  \A i, j \in 1..Len(dispatched) : dispatched[i] = dispatched[j] => i = j

\* C19: once stopListening has run, no user message is dispatched until the
\* capture is started again.
C19_NoDispatchAfterStop ==
  [][userStopped => dispatched' = dispatched]_vars

SynthCallsOf(c) == {i \in DOMAIN synthCalls : synthCalls[i].call = c}

\* C20: with audio unmuted, once a send whose response was partial fragments
\* and then one terminal fragment of the coordinator with a text of the
\* minimum length has been dealt with, exactly one synthesis call was made
\* for it, with the text of the terminal fragment.
C20_OneSynthesisPerSend ==
  \A c \in CallIds :
    /\ SpeakSettled
    /\ calls[c].pc = "done"
    /\ calls[c].gen.kind = "closed" /\ calls[c].gen.author = COORD
    /\ Speakable(calls[c].gen.text, isMuted)
    => /\ Cardinality(SynthCallsOf(c)) = 1
       /\ \A i \in SynthCallsOf(c) : synthCalls[i].text = calls[c].gen.text

\* C20: no synthesis call is made with the text of partial fragments, and no
\* send has more than one synthesis call.
C20_PartialsNeverSynthesised ==
  /\ \A i \in DOMAIN synthCalls :
       /\ synthCalls[i].call \in CallIds
       /\ calls[synthCalls[i].call].gen.kind = "closed"
       /\ synthCalls[i].text = calls[synthCalls[i].call].gen.text
  /\ \A c \in CallIds : Cardinality(SynthCallsOf(c)) <= 1

\* The effect applies a partial fragment while the last transcript entry is a
\* streaming entry of another author.
C21_Case ==
  /\ EffectStep
  /\ ~EffectSkips(events, processedEvents, now)
  /\ LatestEvent(events).partial \/ LatestEvent(events).isStreaming
  /\ Len(sessionEvents) >= 1
  /\ Last(sessionEvents).isStreaming
  /\ Last(sessionEvents).author # LatestEvent(events).author

\* C21: applying a partial fragment of author B while the last entry is a
\* streaming entry of author A appends a new entry of B and leaves every
\* entry there was, A's included, unchanged.
C21_NoCrossAuthorMerge ==
  [][C21_Case =>
       /\ Len(sessionEvents') = Len(sessionEvents) + 1
       /\ SubSeq(sessionEvents', 1, Len(sessionEvents)) = sessionEvents
       /\ Last(sessionEvents').author = LatestEvent(events).author
       /\ Last(sessionEvents').text = LatestEvent(events).text]_vars

\* C21: in that step the entries there were are left unchanged.
C21_StreamingEntryKept ==
  [][C21_Case => SubSeq(sessionEvents', 1, Len(sessionEvents)) = sessionEvents]_vars

\* A step in which generateAndPlayTTS passes its guard for utterance u
Speaks(u) == utterances[u].pc = "idle" /\ utterances'[u].pc # "idle"

\* C22: a text is handed to synthesis or playback only if, at that time, the
\* audio is not muted and the text is not blank and has the minimum length.
C22_SynthesisGuards ==
  [][\A u \in UttIds :
       Speaks(u) => /\ ~isMuted
                    /\ Trim(utterances'[u].text) # <<>>
                    /\ Len(utterances'[u].text) >= TtsMinLength]_vars

\* C22: no blank or short text is handed to synthesis or playback.
C22_TextGuards ==
  \A u \in UttIds :
    utterances[u].pc # "idle" =>
      Trim(utterances[u].text) # <<>> /\ Len(utterances[u].text) >= TtsMinLength

\* The entries of s of auxiliary agents
OfAgents(s) == LET Is(e) == ~IsUser(e) /\ ~IsCoordinator(e) IN SelectSeq(s, Is)

\* C23: every block without coordinatorMessage that holds an entry of an
\* auxiliary agent displays its lastAgentMessage as the reply.
C23_FallbackDisplayed ==
  \A k \in DOMAIN conversationBlocks :
    /\ conversationBlocks[k].coordinatorMessage = NoEntry
    /\ DOMAIN conversationBlocks[k].agentActivity # {}
    => ShowsLastAgentMessage(conversationBlocks[k])

\* C23: lastAgentMessage of a block is the most recent entry of an auxiliary
\* agent in it.
C23_LastAgentTracked ==
  \A k \in DOMAIN conversationBlocks :
    LET aux == OfAgents(Span(ValidEvents(tabEvents), k))
    IN conversationBlocks[k].lastAgentMessage =
         IF aux = <<>> THEN NoEntry ELSE Last(aux)

\* C24: the extraction step discards no event that carries function calls or
\* function responses.
C24_CallsNotDiscarded ==
  extracted = "discarded" =>
    latestEvent.function_calls = 0 /\ latestEvent.function_responses = 0

\* C24: every event the extraction step discards has no text in its first part.
C24_DiscardedHasNoText ==
  extracted = "discarded" =>
    \/ latestEvent.parts = <<>>
    \/ latestEvent.parts[1].text = <<>>

\* C25: when the load of the events of the current session fails, the page
\* moves to another, new session with an empty transcript.
C25_LoadFailureFallsBack ==
  [][\A s \in SessionIds :
       s \in loadFailed' \ loadFailed /\ s = currentSession
       => currentSession' # s /\ currentSession' # 0 /\ sessionEvents' = <<>>]_vars

\* C25: a failed load of the events of a session changes neither the current
\* session nor the transcript.
C25_LoadFailureChangesNothing ==
  [][\A s \in SessionIds :
       s \in loadFailed' \ loadFailed
       => currentSession' = currentSession /\ sessionEvents' = sessionEvents]_vars

\* C25: when the list of sessions cannot be fetched on mount, the page has a
\* current session and an empty transcript.
C25_ListFailureFallsBack ==
  [][currentSession = 0 /\ currentSession' # 0 /\ loadPending' = loadPending
       => sessionEvents' = <<>>]_vars

\* The streams of all sends have closed and the effect has run on the last
\* events array.
AllStreamsClosed ==
  /\ ~isLoading
  /\ ~eventsDirty
  /\ \A c \in CallIds : calls[c].pc \in {"idle", "done"}
  /\ \E c \in CallIds : calls[c].pc = "done"

\* C26: once the stream of a send has closed and isLoading is false again, no
\* entry of the transcript is marked isStreaming.
C26_NoStreamingAfterClose ==
  AllStreamsClosed => \A i \in DOMAIN sessionEvents : ~sessionEvents[i].isStreaming

\* C26: a terminal fragment with text, applied when the last entry is a
\* streaming entry of its author, leaves the last entry not streaming.
C26_TerminalEndsStreaming ==
  [][(/\ eventsDirty /\ ~eventsDirty'
      /\ ~EffectSkips(events, processedEvents, now)
      /\ IsFinal(LatestEvent(events))
      /\ sessionEvents # <<>>
      /\ Last(sessionEvents).isStreaming
      /\ Last(sessionEvents).author = LatestEvent(events).author)
     => ~Last(sessionEvents').isStreaming]_vars

\* C27: once the effect has run on the last events array, it has run on
\* every fragment with text that the read loop has parsed.
C27_NoFragmentLost ==
  ~eventsDirty => \A p \in parsedText : p.seq \in effectSeen

\* C27: the same for the fragments that are not partial, whose text no later
\* event repeats.
C27_NoCompleteFragmentLost ==
  ~eventsDirty => \A p \in parsedText : ~p.partial => p.seq \in effectSeen

\* C27: the effect runs only on events the read loop has parsed.
C27_SeenWereParsed ==
  \A q \in effectSeen : q \in 1..nFrags

\* C28: isGeneratingTTS is true whenever a synthesis request that was not
\* aborted is in flight.
C28_FlagCoversRequest ==
  \A u \in UttIds : InFlight(u) => isGeneratingTTS

\* C28: isGeneratingTTS is true right after the step in which a synthesis
\* request starts.
C28_FlagSetAtStart ==
  [][\A u \in UttIds :
       utterances[u].pc = "idle" /\ utterances'[u].pc = "fetching"
       => isGeneratingTTS']_vars

\* C29: what get(text) of the cache of part_011 returns was stored by a
\* set() with the same text.
C29_ServedWasStored ==
  served.tts # 0 => [text |-> served.text, bytes |-> served.tts] \in stored

\* C29: the same for the cache of MessageInput.tsx.
C29_LruServedWasStored ==
  served.lru # 0 => [text |-> served.text, bytes |-> served.lru] \in stored

\* C29: what get(text) returns was stored by a set() with a text of the
\* same hash.
C29_ServedSharesHash ==
  /\ served.tts # 0 =>
       \E p \in stored : HashText(p.text) = HashText(served.text) /\ p.bytes = served.tts
  /\ served.lru # 0 =>
       \E p \in stored : /\ LruHashText(p.text) = LruHashText(served.text)
                          /\ p.bytes = served.lru

\* C30: at most maxReconnectAttempts reconnect attempts are made without
\* an open in between.
C30_ReconnectsBounded ==
  sinceOpen <= maxReconnectAttempts

\* C30: the counter of the hook counts the reconnect attempts since the last
\* open, and with reconnect off none is made.
C30_CounterCounts ==
  /\ reconnectAttempts = sinceOpen
  /\ ~reconnectOpt => sinceOpen = 0

====
